---- MODULE Spec2Model ----
(***************************************************************************)
(* Aadhaar Enrolment Intelligence System (AEIS) backend.                   *)
(*                                                                         *)
(* The module models the schema validator and loader (data_loader.py), the *)
(* preprocessor and the filter layer (preprocessing.py), the analysis      *)
(* engine (analysis.py) and the request layer that owns the process-wide   *)
(* current dataset (app.py).                                               *)
(*                                                                         *)
(* Representation of pandas values:                                        *)
(*  - a float cell is a record [nan, v]; NaN is the cell with nan = TRUE;  *)
(*  - a date cell is a record [kind, a, b, c, ord]: kind "str" is the text *)
(*    "a-b-c" read from the CSV or sent as a request parameter, kind "ts"  *)
(*    is a Timestamp whose day number within the modelled year is ord, and *)
(*    kind "NaT" is the missing Timestamp;                                 *)
(*  - a DataFrame is a record [columns, rows]; rows is the sequence of the *)
(*    rows in frame order and every row carries its index label;           *)
(*  - a statistic is a record [nan, num, den] (the rational num/den).      *)
(***************************************************************************)
EXTENDS Integers, Sequences, FiniteSets, TLC

(***************************************************************************)
(* Bounds of the model.                                                    *)
(***************************************************************************)
MaxRows == 3

(***************************************************************************)
(* config.py                                                               *)
(***************************************************************************)
REQUIRED_COLUMNS ==
    {"date", "state", "district", "pincode", "age_0_5", "age_5_17", "age_18_greater"}

None == [kind |-> "None"]

(***************************************************************************)
(* Float cells.                                                            *)
(***************************************************************************)
NaN == [nan |-> TRUE, v |-> 0]

Num(n) == [nan |-> FALSE, v |-> n]

\* float + float: NaN propagates (preprocessing.py:41-43 adds three Series)
FloatAdd(x, y) == IF x.nan \/ y.nan THEN NaN ELSE Num(x.v + y.v)

\* Series.sum() with the default skipna=True: missing cells are skipped and
\* the sum of no cell is 0
RECURSIVE SeriesSum(_)
SeriesSum(cells) ==
    IF cells = << >> THEN 0
    ELSE (IF Head(cells).nan THEN 0 ELSE Head(cells).v) + SeriesSum(Tail(cells))

(***************************************************************************)
(* Dates.  The modelled calendar is the year 2024.                         *)
(***************************************************************************)
CalendarYear == 2024

DaysInMonth == <<31, 29, 31, 30, 31, 30, 31, 31, 30, 31, 30, 31>>

RECURSIVE DaysUpTo(_)
DaysUpTo(m) == IF m = 0 THEN 0 ELSE DaysInMonth[m] + DaysUpTo(m - 1)

\* the days of the year before the first day of each month
DaysBeforeMonth == [m \in 1..12 |-> DaysUpTo(m - 1)]

DaysBefore(m) == DaysBeforeMonth[m]

Txt(a, b, c) == [kind |-> "str", a |-> a, b |-> b, c |-> c, ord |-> 0]

Ts(n) == [kind |-> "ts", a |-> 0, b |-> 0, c |-> 0, ord |-> n]

NaT == [kind |-> "NaT", a |-> 0, b |-> 0, c |-> 0, ord |-> 0]

ValidYMD(y, m, d) ==
    /\ y = CalendarYear
    /\ m \in 1..12
    /\ d >= 1
    /\ d <= DaysInMonth[m]

Timestamp(y, m, d) == Ts(DaysBefore(m) + d)

\* strptime with '%d-%m-%Y', errors='coerce': the first field is the day,
\* the second the month, the third the year; anything else becomes NaT
StrptimeDMY(x) ==
    IF ValidYMD(x.c, x.b, x.a) THEN Timestamp(x.c, x.b, x.a) ELSE NaT

\* pd.to_datetime(text) without a format: year-first text is ISO
\* year-month-day; otherwise the text is read month first, and day first
\* only when the first field cannot be a month.  NaT stands for the
\* ValueError of a text that is no date.
ParseGeneral(x) ==
    IF x.a >= 1000
    THEN (IF ValidYMD(x.a, x.b, x.c) THEN Timestamp(x.a, x.b, x.c) ELSE NaT)
    ELSE IF ValidYMD(x.c, x.a, x.b) THEN Timestamp(x.c, x.a, x.b)
    ELSE IF ValidYMD(x.c, x.b, x.a) THEN Timestamp(x.c, x.b, x.a)
    ELSE NaT

\* Series.dt accessors of a Timestamp
MonthOf(t) ==
    CHOOSE m \in 1..12 : DaysBefore(m) < t.ord /\ t.ord <= DaysBefore(m) + DaysInMonth[m]

DayOf(t) == t.ord - DaysBefore(MonthOf(t))

MonthNames ==
    <<"January", "February", "March", "April", "May", "June", "July",
      "August", "September", "October", "November", "December">>

\* 1 January 2024 is a Monday
DayNames ==
    <<"Monday", "Tuesday", "Wednesday", "Thursday", "Friday", "Saturday", "Sunday">>

DayNameOf(t) == DayNames[((t.ord - 1) % 7) + 1]

\* ISO week: the year starts on a Monday, so week 1 is days 1..7
IsoWeekOf(t) == ((t.ord - 1) \div 7) + 1

(***************************************************************************)
(* DataFrames.                                                             *)
(***************************************************************************)
Frame(cols, rows) == [columns |-> cols, rows |-> rows]

RawRow(i, d, p, a1, a2, a3) ==
    [index |-> i, date |-> d, state |-> "West Bengal", district |-> "Birbhum",
     pincode |-> p, age_0_5 |-> a1, age_5_17 |-> a2, age_18_greater |-> a3]

DERIVED_COLUMNS ==
    {"total_enrolments", "year", "month", "month_name", "day", "day_of_week",
     "week_of_year"}

RECURSIVE SelectRows(_, _)
\* df[mask]: the rows on which the mask holds, in frame order, labels kept
SelectRows(rows, mask) ==
    IF rows = << >> THEN << >>
    ELSE IF mask[1] THEN <<Head(rows)>> \o SelectRows(Tail(rows), Tail(mask))
    ELSE SelectRows(Tail(rows), Tail(mask))

Column(rows, name) == [i \in 1..Len(rows) |-> rows[i][name]]

(***************************************************************************)
(* Python results: a returned value, or the exception that was raised.     *)
(***************************************************************************)
Ok(v) == [raised |-> FALSE, error |-> "", value |-> v]

Raise(e) == [raised |-> TRUE, error |-> e, value |-> None]

(***************************************************************************)
(* data_loader.py                                                          *)
(***************************************************************************)
\* validate_columns: TRUE, or the ValueError (FALSE) when a column is missing
validate_columns(df) == (REQUIRED_COLUMNS \ df.columns) = {}

(***************************************************************************)
(* preprocessing.py                                                        *)
(***************************************************************************)
\* to_datetime(column, format='%d-%m-%Y', errors='coerce'): text is parsed
\* with the strict format; a column that already holds Timestamps is
\* returned as it is
to_datetime_dmy(d) == IF d.kind = "str" THEN StrptimeDMY(d) ELSE d

parse_dates(df) ==
    LET parsed == [i \in 1..Len(df.rows) |->
                      [df.rows[i] EXCEPT !.date = to_datetime_dmy(@)]]
        keep == [i \in 1..Len(parsed) |-> parsed[i].date.kind # "NaT"]
    IN  Frame(df.columns, SelectRows(parsed, keep))

DerivedRow(r) ==
    [index |-> r.index, date |-> r.date, state |-> r.state, district |-> r.district,
     pincode |-> r.pincode, age_0_5 |-> r.age_0_5, age_5_17 |-> r.age_5_17,
     age_18_greater |-> r.age_18_greater,
     total_enrolments |-> FloatAdd(FloatAdd(r.age_0_5, r.age_5_17), r.age_18_greater),
     year |-> CalendarYear,
     month |-> MonthOf(r.date),
     month_name |-> MonthNames[MonthOf(r.date)],
     day |-> DayOf(r.date),
     day_of_week |-> DayNameOf(r.date),
     week_of_year |-> IsoWeekOf(r.date)]

\* add_derived_columns whose total leaves out the adult band
add_derived_columns_two_bands(df) ==
    Frame(df.columns \cup DERIVED_COLUMNS,
          [i \in 1..Len(df.rows) |->
              [DerivedRow(df.rows[i]) EXCEPT
                  !.total_enrolments = FloatAdd(df.rows[i].age_0_5, df.rows[i].age_5_17)]])

add_derived_columns(df) ==
    Frame(df.columns \cup DERIVED_COLUMNS,
          [i \in 1..Len(df.rows) |-> DerivedRow(df.rows[i])])

RECURSIVE DateOrders(_, _)
\* the orders of the positions S of rows that ascend by date
DateOrders(rows, S) ==
    IF S = {} THEN {<< >>}
    ELSE UNION { { <<i>> \o t : t \in DateOrders(rows, S \ {i}) } :
                   i \in {k \in S : \A j \in S : rows[k].date.ord <= rows[j].date.ord} }

\* sort_values that leaves the frame in its input order
sort_values_date_unsorted(df) == {df}

\* df.sort_values('date') with the default kind='quicksort': ascending by
\* date; quicksort is not a stable sort, so the order of rows with equal
\* dates is any order the sort leaves them in
sort_values_date(df) ==
    { Frame(df.columns, [i \in 1..Len(f) |-> df.rows[f[i]]]) :
        f \in DateOrders(df.rows, 1..Len(df.rows)) }

\* reset_index(drop=True): labels become 0..n-1 in frame order
reset_index(df) ==
    Frame(df.columns, [i \in 1..Len(df.rows) |-> [df.rows[i] EXCEPT !.index = i - 1]])

\* preprocess_data: the set of frames the pipeline can return for df
preprocess_data(df) ==
    { reset_index(s) : s \in sort_values_date(add_derived_columns(parse_dates(df))) }

\* the empty text "", which Python takes as false
EmptyStr == [kind |-> "empty str"]

\* `if start_date:` holds for every argument but None and ""
Truthy(x) == x.kind \notin {"None", "empty str"}

\* isinstance(x, str) => pd.to_datetime(x); a Timestamp is used as it is
DateBound(x) == IF x.kind = "str" THEN ParseGeneral(x) ELSE x

\* filter_by_date_range with df['date'] < end_date for the upper bound
filter_by_date_range_open_end(df, start_date, end_date) ==
    LET lo == IF Truthy(start_date) THEN DateBound(start_date) ELSE None
        hi == IF Truthy(end_date) THEN DateBound(end_date) ELSE None
    IN  IF lo.kind = "NaT" \/ hi.kind = "NaT" THEN Raise("ValueError")
        ELSE LET d1 == IF lo = None THEN df.rows
                       ELSE SelectRows(df.rows,
                                [i \in 1..Len(df.rows) |-> df.rows[i].date.ord >= lo.ord])
                 d2 == IF hi = None THEN d1
                       ELSE SelectRows(d1, [i \in 1..Len(d1) |-> d1[i].date.ord < hi.ord])
             IN  Ok(Frame(df.columns, d2))

\* filter_by_date_range with df['date'] > start_date for the lower bound
filter_by_date_range_open_start(df, start_date, end_date) ==
    LET lo == IF Truthy(start_date) THEN DateBound(start_date) ELSE None
        hi == IF Truthy(end_date) THEN DateBound(end_date) ELSE None
    IN  IF lo.kind = "NaT" \/ hi.kind = "NaT" THEN Raise("ValueError")
        ELSE LET d1 == IF lo = None THEN df.rows
                       ELSE SelectRows(df.rows,
                                [i \in 1..Len(df.rows) |-> df.rows[i].date.ord > lo.ord])
                 d2 == IF hi = None THEN d1
                       ELSE SelectRows(d1, [i \in 1..Len(d1) |-> d1[i].date.ord <= hi.ord])
             IN  Ok(Frame(df.columns, d2))

\* filter_by_date_range: the frame is copied, then cut to date >= start_date
\* and then to date <= end_date, each only when the bound is given; text
\* that is no date raises ValueError in pd.to_datetime
filter_by_date_range(df, start_date, end_date) ==
    LET lo == IF Truthy(start_date) THEN DateBound(start_date) ELSE None
        hi == IF Truthy(end_date) THEN DateBound(end_date) ELSE None
    IN  IF lo.kind = "NaT" \/ hi.kind = "NaT" THEN Raise("ValueError")
        ELSE LET d1 == IF lo = None THEN df.rows
                       ELSE SelectRows(df.rows,
                                [i \in 1..Len(df.rows) |-> df.rows[i].date.ord >= lo.ord])
                 d2 == IF hi = None THEN d1
                       ELSE SelectRows(d1, [i \in 1..Len(d1) |-> d1[i].date.ord <= hi.ord])
             IN  Ok(Frame(df.columns, d2))

\* pincode arguments: an int, a str (its characters), or a list of these
PInt(n) == [kind |-> "int", v |-> n, s |-> << >>, items |-> << >>]

PStr(chars) == [kind |-> "str", v |-> 0, s |-> chars, items |-> << >>]

PList(items) == [kind |-> "list", v |-> 0, s |-> << >>, items |-> items]

DigitValue ==
    [c \in {"0", "1", "2", "3", "4", "5", "6", "7", "8", "9"} |->
        CASE c = "0" -> 0 [] c = "1" -> 1 [] c = "2" -> 2 [] c = "3" -> 3
          [] c = "4" -> 4 [] c = "5" -> 5 [] c = "6" -> 6 [] c = "7" -> 7
          [] c = "8" -> 8 [] c = "9" -> 9]

RECURSIVE Decimal(_)
Decimal(chars) ==
    IF chars = << >> THEN 0
    ELSE 10 * Decimal(SubSeq(chars, 1, Len(chars) - 1)) + DigitValue[chars[Len(chars)]]

\* int(p): an int is itself, a str of decimal digits is its value, any
\* other str raises ValueError
PyInt(p) ==
    IF p.kind = "int" THEN Ok(p.v)
    ELSE IF p.s # << >> /\ \A i \in 1..Len(p.s) : p.s[i] \in DOMAIN DigitValue
         THEN Ok(Decimal(p.s))
    ELSE Raise("ValueError")

\* filter_by_pincode where only an int scalar is wrapped into a list, so
\* that a str is iterated character by character
filter_by_pincode_chars(df, pincodes) ==
    LET lst == IF pincodes.kind = "int" THEN <<pincodes>>
               ELSE IF pincodes.kind = "str"
                    THEN [i \in 1..Len(pincodes.s) |-> PStr(<<pincodes.s[i]>>)]
               ELSE pincodes.items
        conv == [i \in 1..Len(lst) |-> PyInt(lst[i])]
    IN  IF \E i \in 1..Len(lst) : conv[i].raised THEN Raise("ValueError")
        ELSE LET codes == {conv[i].value : i \in 1..Len(lst)}
             IN  Ok(Frame(df.columns,
                          SelectRows(df.rows,
                              [i \in 1..Len(df.rows) |-> df.rows[i].pincode \in codes])))

\* filter_by_pincode: a scalar is wrapped into a list, every code goes
\* through int(), and the rows whose pincode isin the codes are returned
filter_by_pincode(df, pincodes) ==
    LET lst == IF pincodes.kind \in {"int", "str"} THEN <<pincodes>> ELSE pincodes.items
        conv == [i \in 1..Len(lst) |-> PyInt(lst[i])]
    IN  IF \E i \in 1..Len(lst) : conv[i].raised THEN Raise("ValueError")
        ELSE LET codes == {conv[i].value : i \in 1..Len(lst)}
             IN  Ok(Frame(df.columns,
                          SelectRows(df.rows,
                              [i \in 1..Len(df.rows) |-> df.rows[i].pincode \in codes])))

(***************************************************************************)
(* Statistics of an integer Series.                                        *)
(***************************************************************************)
NaNStat == [nan |-> TRUE, num |-> 0, den |-> 1]

Stat(n, d) == [nan |-> FALSE, num |-> n, den |-> d]

RECURSIVE SeqSum(_)
SeqSum(xs) == IF xs = << >> THEN 0 ELSE Head(xs) + SeqSum(Tail(xs))

RECURSIVE SeqSumSq(_)
SeqSumSq(xs) == IF xs = << >> THEN 0 ELSE Head(xs) * Head(xs) + SeqSumSq(Tail(xs))

RECURSIVE SortedSeq(_)
\* the members of a set of integers in ascending order
SortedSeq(S) ==
    IF S = {} THEN << >>
    ELSE LET m == CHOOSE x \in S : \A y \in S : x <= y
         IN  <<m>> \o SortedSeq(S \ {m})

RECURSIVE Insert(_, _)
Insert(x, sorted) ==
    IF sorted = << >> THEN <<x>>
    ELSE IF x <= Head(sorted) THEN <<x>> \o sorted
    ELSE <<Head(sorted)>> \o Insert(x, Tail(sorted))

RECURSIVE SortInts(_)
\* the values of a Series in ascending order
SortInts(xs) == IF xs = << >> THEN << >> ELSE Insert(Head(xs), SortInts(Tail(xs)))

\* Series.mean(): NaN for the empty Series
SeriesMean(xs) == IF Len(xs) = 0 THEN NaNStat ELSE Stat(SeqSum(xs), Len(xs))

\* Series.median(): the middle value, or the mean of the two middle values
SeriesMedian(xs) ==
    LET n == Len(xs)
        s == SortInts(xs)
    IN  IF n = 0 THEN NaNStat
        ELSE IF n % 2 = 1 THEN Stat(s[(n + 1) \div 2], 1)
        ELSE Stat(s[n \div 2] + s[(n \div 2) + 1], 2)

\* the population variance (ddof=0)
SeriesVar_population(xs) ==
    LET n == Len(xs)
    IN  IF n = 0 THEN NaNStat
        ELSE Stat(n * SeqSumSq(xs) - SeqSum(xs) * SeqSum(xs), n * n)

\* Series.var() with ddof=1 as a rational; Series.std() is its square root.
\* NaN for fewer than two values.
SeriesVar(xs) ==
    LET n == Len(xs)
    IN  IF n <= 1 THEN NaNStat
        ELSE Stat(n * SeqSumSq(xs) - SeqSum(xs) * SeqSum(xs), n * (n - 1))

SeriesMin(xs) ==
    IF Len(xs) = 0 THEN NaNStat
    ELSE Stat(CHOOSE x \in {xs[i] : i \in 1..Len(xs)} :
                  \A j \in 1..Len(xs) : x <= xs[j], 1)

SeriesMax(xs) ==
    IF Len(xs) = 0 THEN NaNStat
    ELSE Stat(CHOOSE x \in {xs[i] : i \in 1..Len(xs)} :
                  \A j \in 1..Len(xs) : x >= xs[j], 1)

\* df['date'].min() / .max(): NaT for the empty frame
DateMin(rows) ==
    IF Len(rows) = 0 THEN NaT
    ELSE Ts(CHOOSE x \in {rows[i].date.ord : i \in 1..Len(rows)} :
                \A j \in 1..Len(rows) : x <= rows[j].date.ord)

DateMax(rows) ==
    IF Len(rows) = 0 THEN NaT
    ELSE Ts(CHOOSE x \in {rows[i].date.ord : i \in 1..Len(rows)} :
                \A j \in 1..Len(rows) : x >= rows[j].date.ord)

\* Timestamp.strftime('%Y-%m-%d'): the text "year-month-day"
StrftimeYMD(t) == Txt(CalendarYear, MonthOf(t), DayOf(t))

\* df.groupby('date')[col].sum(): one entry per distinct date in ascending
\* date order, holding the skipna sum of the group's cells
groupby_date_sum(rows, col) ==
    LET keys == SortedSeq({rows[i].date.ord : i \in 1..Len(rows)})
    IN  [k \in 1..Len(keys) |->
            [date |-> Ts(keys[k]),
             value |-> SeriesSum(Column(
                 SelectRows(rows, [i \in 1..Len(rows) |-> rows[i].date.ord = keys[k]]),
                 col))]]

(***************************************************************************)
(* analysis.py                                                             *)
(***************************************************************************)
\* calculate_summary_statistics.  The dict literal is evaluated top to
\* bottom: int() of the NaN minimum of an empty daily series raises
\* ValueError, and so does NaT.strftime.
calculate_summary_statistics(df) ==
    LET rows == df.rows
        daily == Column(groupby_date_sum(rows, "total_enrolments"), "value")
        dmin == DateMin(rows)
        dmax == DateMax(rows)
    IN  IF SeriesMin(daily).nan \/ SeriesMax(daily).nan THEN Raise("ValueError")
        ELSE IF dmin.kind = "NaT" THEN Raise("ValueError")
        ELSE Ok([total_enrolments |-> SeriesSum(Column(rows, "total_enrolments")),
                 age_group_breakdown |->
                     [age_0_5 |-> SeriesSum(Column(rows, "age_0_5")),
                      age_5_17 |-> SeriesSum(Column(rows, "age_5_17")),
                      age_18_greater |-> SeriesSum(Column(rows, "age_18_greater"))],
                 daily_statistics |->
                     [mean |-> SeriesMean(daily),
                      median |-> SeriesMedian(daily),
                      std |-> SeriesVar(daily),
                      min |-> SeriesMin(daily).num,
                      max |-> SeriesMax(daily).num],
                 unique_pincodes |-> Cardinality({rows[i].pincode : i \in 1..Len(rows)}),
                 date_range |->
                     [start |-> StrftimeYMD(dmin),
                      end |-> StrftimeYMD(dmax),
                      days |-> dmax.ord - dmin.ord]])

\* df.head(n)
head(rows, n) == SubSeq(rows, 1, IF Len(rows) < n THEN Len(rows) ELSE n)

RECURSIVE InsertDesc(_, _, _)
InsertDesc(x, sorted, key) ==
    IF sorted = << >> THEN <<x>>
    ELSE IF x[key] >= Head(sorted)[key] THEN <<x>> \o sorted
    ELSE <<Head(sorted)>> \o InsertDesc(x, Tail(sorted), key)

RECURSIVE SortDesc(_, _)
\* sort_values(key, ascending=False) of an aggregate: descending by key.
\* Rows of equal key are left in their input order here; quicksort fixes no
\* order for them, and no modelled result depends on it.
SortDesc(rows, key) ==
    IF rows = << >> THEN << >> ELSE InsertDesc(Head(rows), SortDesc(Tail(rows), key), key)

\* numpy's float division: x/0 is NaN for x = 0 and infinite (den = 0)
\* otherwise, with a warning and without an exception
FloatDiv(n, d) ==
    IF d # 0 THEN Stat(n, d) ELSE IF n = 0 THEN NaNStat ELSE Stat(1, 0)

RowsWhere(rows, name, v) ==
    SelectRows(rows, [i \in 1..Len(rows) |-> rows[i][name] = v])

\* df.groupby('pincode').agg(sum of the four count columns).reset_index()
groupby_pincode_sum(rows) ==
    LET keys == SortedSeq({rows[i].pincode : i \in 1..Len(rows)})
    IN  [k \in 1..Len(keys) |->
            LET g == RowsWhere(rows, "pincode", keys[k])
            IN  [pincode |-> keys[k],
                 total_enrolments |-> SeriesSum(Column(g, "total_enrolments")),
                 age_0_5 |-> SeriesSum(Column(g, "age_0_5")),
                 age_5_17 |-> SeriesSum(Column(g, "age_5_17")),
                 age_18_greater |-> SeriesSum(Column(g, "age_18_greater"))]]

\* df.groupby(['year', 'month'])['total_enrolments'].sum().reset_index()
groupby_month_sum(rows) ==
    LET keys == SortedSeq({rows[i].month : i \in 1..Len(rows)})
    IN  [k \in 1..Len(keys) |->
            [year |-> CalendarYear, month |-> keys[k],
             total_enrolments |->
                 SeriesSum(Column(RowsWhere(rows, "month", keys[k]), "total_enrolments"))]]

\* the share of the top pincodes as a fraction of 1 instead of a percentage
pincode_concentration_fraction(dist) ==
    FloatDiv(SeqSum(Column(head(dist, 10), "total_enrolments")),
             SeqSum(Column(dist, "total_enrolments")))

\* head(10)['total_enrolments'].sum() / ['total_enrolments'].sum() * 100
pincode_concentration(dist) ==
    FloatDiv(100 * SeqSum(Column(head(dist, 10), "total_enrolments")),
             SeqSum(Column(dist, "total_enrolments")))

\* analyze_geographic_distribution
analyze_geographic_distribution(df) ==
    LET pincode_dist == SortDesc(groupby_pincode_sum(df.rows), "total_enrolments")
        districts == {df.rows[i].district : i \in 1..Len(df.rows)}
    IN  Ok([top_10_pincodes |-> head(pincode_dist, 10),
            district_summary |->
                { [district |-> d,
                   total_enrolments |->
                       SeriesSum(Column(RowsWhere(df.rows, "district", d), "total_enrolments")),
                   unique_pincodes |->
                       Cardinality({r.pincode : r \in
                           {df.rows[i] : i \in {j \in 1..Len(df.rows) : df.rows[j].district = d}}})] :
                  d \in districts },
            pincode_concentration |-> [top_10_percent |-> pincode_concentration(pincode_dist)]])

\* analyze_temporal_trends: iloc[-1] of an empty daily series raises
\* IndexError
analyze_temporal_trends(df) ==
    LET daily == groupby_date_sum(df.rows, "total_enrolments")
    IN  IF daily = << >> THEN Raise("IndexError")
        ELSE Ok([daily_trend |-> daily,
                 monthly_trend |-> groupby_month_sum(df.rows),
                 day_of_week_pattern |->
                     [days |-> DayNames,
                      enrolments |->
                          [k \in 1..7 |->
                              SeriesSum(Column(RowsWhere(df.rows, "day_of_week", DayNames[k]),
                                               "total_enrolments"))]],
                 trend_direction |->
                     IF daily[Len(daily)].value > daily[1].value
                     THEN "increasing" ELSE "decreasing"])

\* analyze_age_distribution
analyze_age_distribution(df) ==
    LET total == SeriesSum(Column(df.rows, "total_enrolments"))
        band(name) ==
            [count |-> SeriesSum(Column(df.rows, name)),
             percentage |-> FloatDiv(100 * SeriesSum(Column(df.rows, name)), total)]
        keys == SortedSeq({df.rows[i].date.ord : i \in 1..Len(df.rows)})
    IN  Ok([overall_breakdown |->
                [age_0_5 |-> band("age_0_5"), age_5_17 |-> band("age_5_17"),
                 age_18_greater |-> band("age_18_greater")],
            temporal_breakdown |->
                [k \in 1..Len(keys) |->
                    LET g == SelectRows(df.rows,
                                 [i \in 1..Len(df.rows) |-> df.rows[i].date.ord = keys[k]])
                    IN  [date |-> Ts(keys[k]),
                         age_0_5 |-> SeriesSum(Column(g, "age_0_5")),
                         age_5_17 |-> SeriesSum(Column(g, "age_5_17")),
                         age_18_greater |-> SeriesSum(Column(g, "age_18_greater"))]]])

\* identify_peak_periods: idxmax of an empty monthly series raises
\* ValueError; idxmax is the first month that holds the maximum
identify_peak_periods(df) ==
    LET daily == groupby_date_sum(df.rows, "total_enrolments")
        monthly == groupby_month_sum(df.rows)
    IN  IF monthly = << >> THEN Raise("ValueError")
        ELSE LET best == CHOOSE k \in 1..Len(monthly) :
                            /\ \A j \in 1..Len(monthly) :
                                  monthly[j].total_enrolments <= monthly[k].total_enrolments
                            /\ \A j \in 1..(k - 1) :
                                  monthly[j].total_enrolments < monthly[k].total_enrolments
             IN  Ok([top_10_days |-> head(SortDesc(daily, "value"), 10),
                     peak_month |->
                         [year |-> monthly[best].year, month |-> monthly[best].month,
                          enrolments |-> monthly[best].total_enrolments],
                     average_daily_enrolment |-> SeriesMean(Column(daily, "value"))])

\* run_full_analysis: the six analyses in the order of the dict literal; the
\* first exception ends the call.  calculate_correlation_matrix (a Pearson
\* matrix, which raises for no frame) has no counterpart in this model.
run_full_analysis(df) ==
    LET summary == calculate_summary_statistics(df)
        temporal == analyze_temporal_trends(df)
        geographic == analyze_geographic_distribution(df)
        age_distribution == analyze_age_distribution(df)
        peak_periods == identify_peak_periods(df)
    IN  IF summary.raised THEN summary
        ELSE IF temporal.raised THEN temporal
        ELSE IF geographic.raised THEN geographic
        ELSE IF age_distribution.raised THEN age_distribution
        ELSE IF peak_periods.raised THEN peak_periods
        ELSE Ok([summary |-> summary.value, temporal |-> temporal.value,
                 geographic |-> geographic.value,
                 age_distribution |-> age_distribution.value,
                 peak_periods |-> peak_periods.value])

(***************************************************************************)
(* anomaly_model.py                                                        *)
(*                                                                         *)
(* A z-score is a record [nan, sign, sqnum, sqden]: the number of sign     *)
(* sign whose square is the rational sqnum/sqden (sqden = 0: infinite).    *)
(* A threshold is a statistic [nan, num, den] with den > 0.                *)
(***************************************************************************)
ANOMALY_THRESHOLD == Stat(5, 2)

ROLLING_WINDOW == 7

ZNaN == [nan |-> TRUE, sign |-> 0, sqnum |-> 0, sqden |-> 1]

Sign(x) == IF x > 0 THEN 1 ELSE IF x < 0 THEN 0 - 1 ELSE 0

\* (v - mean) / mean
z_score_by_mean(v, mean, var) ==
    IF mean.nan THEN ZNaN
    ELSE LET dev == v * mean.den - mean.num
         IN  IF mean.num = 0 /\ dev = 0 THEN ZNaN
             ELSE [nan |-> FALSE, sign |-> Sign(dev) * Sign(mean.num),
                   sqnum |-> dev * dev, sqden |-> mean.num * mean.num]

\* (v - mean) / std for std = sqrt(var): NaN when the mean or the std is
\* NaN and for 0/0; x/0 is infinite
z_score(v, mean, var) ==
    IF mean.nan \/ var.nan THEN ZNaN
    ELSE LET dev == v * mean.den - mean.num
         IN  IF var.num = 0 /\ dev = 0 THEN ZNaN
             ELSE [nan |-> FALSE, sign |-> Sign(dev),
                   sqnum |-> dev * dev * var.den,
                   sqden |-> mean.den * mean.den * var.num]

\* z > t, z < t and abs(z) > t: every comparison with NaN is False
ZGreater(z, t) ==
    /\ ~z.nan
    /\ IF t.num >= 0
       THEN z.sign > 0 /\ z.sqnum * t.den * t.den > t.num * t.num * z.sqden
       ELSE z.sign >= 0 \/ z.sqnum * t.den * t.den < t.num * t.num * z.sqden

ZLess(z, t) ==
    /\ ~z.nan
    /\ IF t.num <= 0
       THEN z.sign < 0 /\ z.sqnum * t.den * t.den > t.num * t.num * z.sqden
       ELSE z.sign <= 0 \/ z.sqnum * t.den * t.den < t.num * t.num * z.sqden

ZAbsGreater(z, t) ==
    /\ ~z.nan
    /\ (t.num < 0 \/ z.sqnum * t.den * t.den > t.num * t.num * z.sqden)

Negated(t) == Stat(0 - t.num, t.den)

\* calculate_zscore_anomalies whose flag compares z instead of abs(z)
calculate_zscore_anomalies_signed(df, column, threshold) ==
    LET daily == groupby_date_sum(df.rows, column)
        xs == Column(daily, "value")
    IN  [k \in 1..Len(daily) |->
            LET z == z_score(daily[k].value, SeriesMean(xs), SeriesVar(xs))
            IN  [date |-> daily[k].date,
                 total_enrolments |-> daily[k].value,
                 z_score |-> z,
                 is_anomaly |-> ZGreater(z, threshold),
                 anomaly_type |->
                     IF ZGreater(z, threshold) THEN "high"
                     ELSE IF ZLess(z, Negated(threshold)) THEN "low"
                     ELSE "normal"]]

\* calculate_zscore_anomalies: one record per day of the per-day sums, in
\* ascending date order
calculate_zscore_anomalies(df, column, threshold) ==
    LET daily == groupby_date_sum(df.rows, column)
        xs == Column(daily, "value")
    IN  [k \in 1..Len(daily) |->
            LET z == z_score(daily[k].value, SeriesMean(xs), SeriesVar(xs))
            IN  [date |-> daily[k].date,
                 total_enrolments |-> daily[k].value,
                 z_score |-> z,
                 is_anomaly |-> ZAbsGreater(z, threshold),
                 anomaly_type |->
                     IF ZGreater(z, threshold) THEN "high"
                     ELSE IF ZLess(z, Negated(threshold)) THEN "low"
                     ELSE "normal"]]

\* the float 0.0 and the quotient deviation / threshold_value, in the
\* representation of a z-score
ZZero == [nan |-> FALSE, sign |-> 0, sqnum |-> 0, sqden |-> 1]

\* z / t for the threshold multiplier t: deviation / (rolling_std * t) is
\* abs(z) / t; 0/0 is NaN and x/0 is infinite
Severity(z, t) ==
    IF z.nan THEN ZNaN
    ELSE IF z.sqnum = 0 /\ (z.sqden = 0 \/ t.num = 0) THEN ZNaN
    ELSE [nan |-> FALSE,
          sign |-> IF z.sqnum = 0 THEN 0 ELSE IF t.num < 0 THEN 0 - 1 ELSE 1,
          sqnum |-> z.sqnum * t.den * t.den,
          sqden |-> z.sqden * t.num * t.num]

\* Series.fillna(0)
fillna0(x) == IF x.nan THEN ZZero ELSE x

\* the rolling row of position k: rolling(window, center=True) ends its
\* window (window - 1) // 2 positions after k and, min_periods being the
\* window, gives NaN unless all of the window lies within the series
RollingRow(daily, k, window, threshold, fill) ==
    LET offset == (window - 1) \div 2
        last == k + offset
        first == last - window + 1
        full == first >= 1 /\ last <= Len(daily)
        xs == IF full THEN Column(SubSeq(daily, first, last), "value") ELSE << >>
        mean == IF full THEN SeriesMean(xs) ELSE NaNStat
        var == IF full THEN SeriesVar(xs) ELSE NaNStat
        z == z_score(daily[k].value, mean, var)
        quotient == Severity(z, threshold)
    IN  [date |-> daily[k].date,
         total_enrolments |-> daily[k].value,
         rolling_mean |-> mean,
         rolling_std |-> var,
         deviation |->
             IF mean.nan THEN NaNStat
             ELSE Stat(IF daily[k].value * mean.den >= mean.num
                       THEN daily[k].value * mean.den - mean.num
                       ELSE mean.num - daily[k].value * mean.den, mean.den),
         threshold_value |->
             IF var.nan THEN NaNStat
             ELSE Stat(var.num * threshold.num * threshold.num,
                       var.den * threshold.den * threshold.den),
         is_rolling_anomaly |-> ZAbsGreater(z, threshold),
         anomaly_severity |-> IF fill THEN fillna0(quotient) ELSE quotient]

\* calculate_rolling_anomalies without the fillna(0) of the severity
calculate_rolling_anomalies_nofill(df, column, window, threshold) ==
    LET daily == groupby_date_sum(df.rows, column)
    IN  [k \in 1..Len(daily) |-> RollingRow(daily, k, window, threshold, FALSE)]

\* calculate_rolling_anomalies: one record per day in ascending date order;
\* rolling_std and threshold_value hold the squares of the two values
calculate_rolling_anomalies(df, column, window, threshold) ==
    LET daily == groupby_date_sum(df.rows, column)
    IN  [k \in 1..Len(daily) |-> RollingRow(daily, k, window, threshold, TRUE)]

\* np.percentile(xs, q) with the default linear interpolation, for the
\* ascending values xs: the value at the virtual index (n - 1) * q / 100
percentile(xs, q) ==
    LET pos == (Len(xs) - 1) * q
        lo == (pos \div 100) + 1
        r == pos % 100
    IN  IF r = 0 THEN Stat(100 * xs[lo], 100)
        ELSE Stat(100 * xs[lo] + r * (xs[lo + 1] - xs[lo]), 100)

\* Series.rank(pct=True) * 100 with the default method='average': the mean
\* of the ranks of the equal values, divided by the number of values
rank_pct(xs, v) ==
    LET less == Cardinality({i \in 1..Len(xs) : xs[i] < v})
        equal == Cardinality({i \in 1..Len(xs) : xs[i] = v})
    IN  Stat(100 * (2 * less + equal + 1), 2 * Len(xs))

\* df.groupby('pincode')['total_enrolments'].sum().reset_index()
groupby_pincode_total(rows) ==
    LET keys == SortedSeq({rows[i].pincode : i \in 1..Len(rows)})
    IN  [k \in 1..Len(keys) |->
            [pincode |-> keys[k],
             total_enrolments |->
                 SeriesSum(Column(RowsWhere(rows, "pincode", keys[k]), "total_enrolments"))]]

\* detect_pincode_anomalies with >= for the comparison with the threshold
detect_pincode_anomalies_inclusive(df, threshold_percentile) ==
    LET pincode_totals == groupby_pincode_total(df.rows)
        xs == Column(pincode_totals, "total_enrolments")
    IN  IF pincode_totals = << >> THEN {Raise("IndexError"), Ok(<< >>)}
        ELSE LET threshold_value == percentile(SortInts(xs), threshold_percentile)
             IN  {Ok(SortDesc(
                     [k \in 1..Len(pincode_totals) |->
                         [pincode |-> pincode_totals[k].pincode,
                          total_enrolments |-> xs[k],
                          is_high_volume |->
                              xs[k] * threshold_value.den >= threshold_value.num,
                          percentile |-> rank_pct(xs, xs[k])]],
                     "total_enrolments"))}

\* detect_pincode_anomalies: the set of its outcomes.  np.percentile of no
\* value raises IndexError or gives NaN (and then no row), depending on the
\* numpy release
detect_pincode_anomalies(df, threshold_percentile) ==
    LET pincode_totals == groupby_pincode_total(df.rows)
        xs == Column(pincode_totals, "total_enrolments")
    IN  IF pincode_totals = << >> THEN {Raise("IndexError"), Ok(<< >>)}
        ELSE LET threshold_value == percentile(SortInts(xs), threshold_percentile)
             IN  {Ok(SortDesc(
                     [k \in 1..Len(pincode_totals) |->
                         [pincode |-> pincode_totals[k].pincode,
                          total_enrolments |-> xs[k],
                          is_high_volume |->
                              xs[k] * threshold_value.den > threshold_value.num,
                          percentile |-> rank_pct(xs, xs[k])]],
                     "total_enrolments"))}

\* the values of the cells that are not missing
RECURSIVE NonMissing(_)
NonMissing(cells) ==
    IF cells = << >> THEN << >>
    ELSE (IF Head(cells).nan THEN << >> ELSE <<Head(cells).v>>) \o NonMissing(Tail(cells))

\* df.groupby(name)['total_enrolments'].agg(['mean', 'std']): per group the
\* mean and the std (as its square) of the totals that are not missing
pattern(rows, name) ==
    [g \in {rows[i][name] : i \in 1..Len(rows)} |->
        LET xs == NonMissing(Column(RowsWhere(rows, name, g), "total_enrolments"))
        IN  [mean |-> SeriesMean(xs), std |-> SeriesVar(xs)]]

\* detect_temporal_anomalies
detect_temporal_anomalies(df) ==
    [day_of_week_patterns |-> pattern(df.rows, "day_of_week"),
     monthly_patterns |-> pattern(df.rows, "month")]

\* the text explain_anomaly renders, by its sentence and the numbers in it
explain_anomaly(anomaly_row, analysis_type) ==
    IF analysis_type = "zscore"
    THEN IF anomaly_row.anomaly_type = "high"
         THEN [sentence |-> "significantly higher than average",
               date |-> anomaly_row.date, number |-> anomaly_row.z_score]
         ELSE IF anomaly_row.anomaly_type = "low"
         THEN [sentence |-> "significantly lower than average",
               date |-> anomaly_row.date, number |-> anomaly_row.z_score]
         ELSE [sentence |-> "No significant anomaly detected.",
               date |-> NaT, number |-> ZNaN]
    ELSE IF analysis_type = "rolling"
    THEN [sentence |-> "deviated significantly from the recent trend",
          date |-> anomaly_row.date, number |-> anomaly_row.anomaly_severity]
    ELSE [sentence |-> "Anomaly detected based on statistical analysis.",
          date |-> NaT, number |-> ZNaN]

\* x > y for two z-scores that are numbers
ZValueGreater(x, y) ==
    IF x.sign # y.sign THEN x.sign > y.sign
    ELSE IF x.sign = 0 THEN FALSE
    ELSE LET bigger == IF x.sqden = y.sqden THEN x.sqnum > y.sqnum
                       ELSE x.sqnum * y.sqden > y.sqnum * x.sqden
             smaller == IF x.sqden = y.sqden THEN x.sqnum < y.sqnum
                        ELSE x.sqnum * y.sqden < y.sqnum * x.sqden
         IN  IF x.sign > 0 THEN bigger ELSE smaller

RECURSIVE nlargest(_, _)
\* DataFrame.nlargest(n, 'z_score') with the default keep='first': the n
\* rows of the largest z in descending order, rows of equal z in frame order
nlargest(rows, n) ==
    IF n = 0 \/ rows = << >> THEN << >>
    ELSE LET best == CHOOSE k \in 1..Len(rows) :
                        /\ \A j \in 1..Len(rows) :
                              ~ZValueGreater(rows[j].z_score, rows[k].z_score)
                        /\ \A j \in 1..(k - 1) :
                              ZValueGreater(rows[k].z_score, rows[j].z_score)
         IN  <<rows[best]>> \o
                 nlargest(SubSeq(rows, 1, best - 1) \o SubSeq(rows, best + 1, Len(rows)),
                          n - 1)

\* the result of run_anomaly_detection for the rows chosen for explanation
AnomalyResults(df, zscore_anomalies, zscore_flagged, top_zscore, pincodes) ==
    LET rolling_anomalies ==
            calculate_rolling_anomalies(df, "total_enrolments", ROLLING_WINDOW,
                                        ANOMALY_THRESHOLD)
        rolling_flagged ==
            SelectRows(rolling_anomalies,
                       [k \in 1..Len(rolling_anomalies) |->
                           rolling_anomalies[k].is_rolling_anomaly])
    IN  [zscore_analysis |->
             [all_days |-> zscore_anomalies,
              anomalies_found |-> Len(zscore_flagged),
              flagged_days |-> zscore_flagged],
         rolling_analysis |->
             [all_days |-> rolling_anomalies,
              anomalies_found |-> Len(rolling_flagged),
              flagged_days |-> rolling_flagged],
         pincode_analysis |->
             [high_volume_pincodes |->
                  SelectRows(pincodes, [k \in 1..Len(pincodes) |-> pincodes[k].is_high_volume]),
              top_10_pincodes |-> head(pincodes, 10)],
         temporal_analysis |-> detect_temporal_anomalies(df),
         explanations |->
             [k \in 1..Len(top_zscore) |->
                 [date |-> StrftimeYMD(top_zscore[k].date),
                  enrolments |-> top_zscore[k].total_enrolments,
                  explanation |-> explain_anomaly(top_zscore[k], "zscore")]],
         methodology |->
             [zscore_threshold |-> ANOMALY_THRESHOLD,
              rolling_window_days |-> ROLLING_WINDOW]]

\* run_anomaly_detection that explains the first five flagged days
run_anomaly_detection_head(df) ==
    LET zscore_anomalies ==
            calculate_zscore_anomalies(df, "total_enrolments", ANOMALY_THRESHOLD)
        zscore_flagged ==
            SelectRows(zscore_anomalies,
                       [k \in 1..Len(zscore_anomalies) |-> zscore_anomalies[k].is_anomaly])
    IN  { IF p.raised THEN p
          ELSE Ok(AnomalyResults(df, zscore_anomalies, zscore_flagged,
                                 head(zscore_flagged, 5), p.value)) :
            p \in detect_pincode_anomalies(df, 95) }

\* run_anomaly_detection: the set of its outcomes; the four detectors run
\* in turn and an exception of one of them ends the call
run_anomaly_detection(df) ==
    LET zscore_anomalies ==
            calculate_zscore_anomalies(df, "total_enrolments", ANOMALY_THRESHOLD)
        zscore_flagged ==
            SelectRows(zscore_anomalies,
                       [k \in 1..Len(zscore_anomalies) |-> zscore_anomalies[k].is_anomaly])
    IN  { IF p.raised THEN p
          ELSE Ok(AnomalyResults(df, zscore_anomalies, zscore_flagged,
                                 nlargest(zscore_flagged, 5), p.value)) :
            p \in detect_pincode_anomalies(df, 95) }

(***************************************************************************)
(* visualization.py: a chart is modelled by the data it draws.             *)
(***************************************************************************)
\* generate_all_visualizations: the set of its outcomes.  The pie chart of
\* plot_age_distribution divides by the sum of the three age totals; for a
\* sum of 0 matplotlib draws NaN wedges or raises ValueError, depending on
\* its release.
generate_all_visualizations(df, anomaly_data) ==
    LET age_totals ==
            <<SeriesSum(Column(df.rows, "age_0_5")), SeriesSum(Column(df.rows, "age_5_17")),
              SeriesSum(Column(df.rows, "age_18_greater"))>>
        charts ==
            [daily_enrolments |-> groupby_date_sum(df.rows, "total_enrolments"),
             age_distribution |-> age_totals,
             top_pincodes |->
                 head(SortDesc(groupby_pincode_total(df.rows), "total_enrolments"), 10),
             monthly_trend |-> groupby_month_sum(df.rows),
             day_of_week |->
                 [k \in 1..7 |->
                     SeriesSum(Column(RowsWhere(df.rows, "day_of_week", DayNames[k]),
                                      "total_enrolments"))],
             age_over_time |->
                 <<groupby_date_sum(df.rows, "age_0_5"), groupby_date_sum(df.rows, "age_5_17"),
                   groupby_date_sum(df.rows, "age_18_greater")>>,
             anomalies |->
                 IF anomaly_data = None THEN None
                 ELSE anomaly_data.zscore_analysis.all_days]
    IN  IF SeqSum(age_totals) = 0 THEN {Ok(charts), Raise("ValueError")} ELSE {Ok(charts)}

(***************************************************************************)
(* State.                                                                  *)
(*  current_data  app.py's global: None or the current DataFrame           *)
(*  temp_upload   the file data/temp_upload.csv: None when it does not     *)
(*                exist, EmptyFile while a save has opened it, else the    *)
(*                table its text holds                                     *)
(*  default_csv   the file at DEFAULT_CSV_PATH (None when it is missing)   *)
(*  server        "starting" until app.py's main block has run             *)
(*  req           per worker thread, the request it is handling            *)
(*  df, src, args, out, phase   a direct use of the engine: the working    *)
(*                frame, the frame the calls since made were given, their  *)
(*                arguments, the last analysis result, and the position in *)
(*                the pipeline                                             *)
(***************************************************************************)
VARIABLES current_data, temp_upload, default_csv, server, req, df, src, args, out, phase

vars == <<current_data, temp_upload, default_csv, server, req, df, src, args, out, phase>>

appVars == <<current_data, temp_upload, default_csv, server, req>>

engineVars == <<df, src, args, out, phase>>

(***************************************************************************)
(* CSV files of the request layer.                                         *)
(***************************************************************************)
Procs == {1, 2}

EmptyFile == [kind |-> "empty"]

\* unsorted dates, an unparseable date and a missing age value
CsvA ==
    Frame(REQUIRED_COLUMNS,
          <<RawRow(0, Txt(2, 1, 2024), 1, Num(2), Num(3), Num(5)),
            RawRow(1, Txt(2024, 1, 3), 2, Num(1), Num(1), Num(1)),
            RawRow(2, Txt(1, 1, 2024), 2, NaN, Num(3), Num(5))>>)

\* two rows of one date
CsvB ==
    Frame(REQUIRED_COLUMNS,
          <<RawRow(0, Txt(3, 1, 2024), 2, Num(0), Num(0), Num(0)),
            RawRow(1, Txt(3, 1, 2024), 1, Num(4), Num(0), Num(1))>>)

\* a table without the column c
CsvLacking(c) == Frame(REQUIRED_COLUMNS \ {c}, CsvB.rows)

UploadFiles == {CsvA, CsvB} \cup {CsvLacking(c) : c \in REQUIRED_COLUMNS}

DefaultFiles == {None, CsvA, CsvLacking("state")}

\* request.files without the 'file' part, and a part with an empty filename
NoFilePart == [kind |-> "no file part"]

EmptyFilename == [kind |-> "empty filename"]

IdleReq ==
    [op |-> "idle", pc |-> "idle", file |-> None, loaded |-> None, df |-> None,
     params |-> None, local |-> None, result |-> None, status |-> 0, error |-> ""]

\* the response is sent: the uploaded file object is released with the request
Done(r, status, error) ==
    [r EXCEPT !.pc = "done", !.status = status, !.error = error, !.file = None]

Free(p) == server = "serving" /\ req[p].pc \in {"idle", "done"}

(***************************************************************************)
(* data_loader.py: load_data on the content of a path.                     *)
(***************************************************************************)
\* load_data without the call of validate_columns
load_data_unvalidated(content) ==
    IF content = None THEN Raise("FileNotFoundError")
    ELSE IF content = EmptyFile THEN Raise("EmptyDataError")
    ELSE Ok(content)

\* load_data: FileNotFoundError for a missing path, EmptyDataError from
\* read_csv for a file without a header line, ValueError from
\* validate_columns, else the frame
load_data(content) ==
    IF content = None THEN Raise("FileNotFoundError")
    ELSE IF content = EmptyFile THEN Raise("EmptyDataError")
    ELSE IF ~validate_columns(content) THEN Raise("ValueError")
    ELSE Ok(content)

\* read_csv's frame when load_data got as far as reading one
ReadFrame(content) == IF content \in {None, EmptyFile} THEN None ELSE content

\* validate_uploaded_file: every exception of load_data becomes the tuple
\* (False, message, None, None)
validate_uploaded_file(content) ==
    LET r == load_data(content)
    IN  IF r.raised THEN [success |-> FALSE, error |-> r.error, df |-> None]
        ELSE [success |-> TRUE, error |-> "", df |-> r.value]

(***************************************************************************)
(* app.py                                                                  *)
(***************************************************************************)
\* the main block: load the default data, ignoring every exception; a WSGI
\* server that imports the module does not run the block
StartServer ==
    /\ server = "starting"
    /\ server' = "serving"
    /\ \/ LET r == load_data(default_csv)
          IN  IF r.raised THEN UNCHANGED current_data
              ELSE current_data' \in preprocess_data(r.value)
       \/ UNCHANGED current_data
    /\ UNCHANGED <<temp_upload, default_csv, req, engineVars>>

\* load_default_data
LoadDefault(p) ==
    /\ Free(p)
    /\ LET r == load_data(default_csv)
           start == [IdleReq EXCEPT !.op = "load_default",
                                    !.loaded = ReadFrame(default_csv)]
       IN  IF r.raised
           THEN /\ req' = [req EXCEPT ![p] = Done(start, 500, r.error)]
                /\ UNCHANGED current_data
           ELSE \E d \in preprocess_data(r.value) :
                    /\ current_data' = d
                    /\ req' = [req EXCEPT ![p] = Done([start EXCEPT !.df = d], 200, "")]
    /\ UNCHANGED <<temp_upload, default_csv, server, engineVars>>

\* upload_data, up to the point where file.save opens the temporary path
UploadBegin(p) ==
    /\ Free(p)
    /\ \E f \in UploadFiles \cup {NoFilePart, EmptyFilename} :
          LET start == [IdleReq EXCEPT !.op = "upload", !.file = f]
          IN  IF f \in {NoFilePart, EmptyFilename}
              THEN /\ req' = [req EXCEPT ![p] = Done(start, 400, "")]
                   /\ UNCHANGED temp_upload
              ELSE /\ req' = [req EXCEPT ![p] = [start EXCEPT !.pc = "save"]]
                   /\ temp_upload' = EmptyFile
    /\ UNCHANGED <<current_data, default_csv, server, engineVars>>

\* file.save writes the uploaded text to the temporary path
UploadSave(p) ==
    /\ req[p].pc = "save"
    /\ temp_upload' = req[p].file
    /\ req' = [req EXCEPT ![p].pc = "validate"]
    /\ UNCHANGED <<current_data, default_csv, server, engineVars>>

\* validate_uploaded_file(temp_path) and the 400 response when it fails
UploadValidate(p) ==
    /\ req[p].pc = "validate"
    /\ LET v == validate_uploaded_file(temp_upload)
           r == [req[p] EXCEPT !.loaded = ReadFrame(temp_upload)]
       IN  IF ~v.success
           THEN req' = [req EXCEPT ![p] = Done(r, 400, v.error)]
           ELSE req' = [req EXCEPT ![p] = [r EXCEPT !.pc = "preprocess"]]
    /\ UNCHANGED <<current_data, temp_upload, default_csv, server, engineVars>>

\* df = preprocess_data(df); current_data = df
UploadStore(p) ==
    /\ req[p].pc = "preprocess"
    /\ \E d \in preprocess_data(req[p].loaded) :
          /\ current_data' = d
          /\ req' = [req EXCEPT ![p] = [@ EXCEPT !.df = d, !.pc = "remove"]]
    /\ UNCHANGED <<temp_upload, default_csv, server, engineVars>>

\* os.remove(temp_path): FileNotFoundError when the path is gone, which the
\* handler turns into the 500 response
UploadRemove(p) ==
    /\ req[p].pc = "remove"
    /\ IF temp_upload = None
       THEN /\ req' = [req EXCEPT ![p] = Done(@, 500, "FileNotFoundError")]
            /\ UNCHANGED temp_upload
       ELSE /\ req' = [req EXCEPT ![p] = Done(@, 200, "")]
            /\ temp_upload' = None
    /\ UNCHANGED <<current_data, default_csv, server, engineVars>>

\* request.json of the analysis requests: no filter; a start date (2
\* January) with a list of pincodes and include_anomalies
AnalysisParams ==
    {[start_date |-> None, end_date |-> None, pincodes |-> None,
      include_anomalies |-> FALSE],
     [start_date |-> Txt(2024, 1, 2), end_date |-> None, pincodes |-> PList(<<PInt(2)>>),
      include_anomalies |-> TRUE]}

AnalysisOps == {"analyze", "detect_anomalies", "visualizations"}

\* analyze_data, detect_anomalies and generate_visualizations up to the
\* test `current_data is None` and its 400 response
AnalysisBegin(p) ==
    /\ Free(p)
    /\ \E op \in AnalysisOps, a \in AnalysisParams :
          LET start == [IdleReq EXCEPT !.op = op, !.params = a]
          IN  IF current_data = None
              THEN req' = [req EXCEPT ![p] = Done(start, 400, "No data loaded")]
              ELSE req' = [req EXCEPT ![p] = [start EXCEPT !.pc = "copy"]]
    /\ UNCHANGED <<current_data, temp_upload, default_csv, server, engineVars>>

\* the filters of a handler applied to its copy of the dataset:
\* detect_anomalies takes no pincodes
apply_filters(op, data, a) ==
    LET d1 == IF Truthy(a.start_date) \/ Truthy(a.end_date)
              THEN filter_by_date_range(data, a.start_date, a.end_date)
              ELSE Ok(data)
    IN  IF d1.raised THEN d1
        ELSE IF op # "detect_anomalies" /\ Truthy(a.pincodes)
        THEN filter_by_pincode(d1.value, a.pincodes)
        ELSE d1

\* the handler that filters the shared frame instead of a copy of it
AnalysisCopy_inplace(p) ==
    /\ req[p].pc = "copy"
    /\ IF current_data = None
       THEN /\ req' = [req EXCEPT ![p] = Done(@, 500, "AttributeError")]
            /\ UNCHANGED current_data
       ELSE LET r == apply_filters(req[p].op, current_data, req[p].params)
            IN  IF r.raised
                THEN /\ req' = [req EXCEPT ![p] = Done(@, 500, r.error)]
                     /\ UNCHANGED current_data
                ELSE /\ req' = [req EXCEPT ![p] = [@ EXCEPT !.local = r.value, !.pc = "run"]]
                     /\ current_data' = r.value
    /\ UNCHANGED <<temp_upload, default_csv, server, engineVars>>

\* df = current_data.copy() and the filters on df
AnalysisCopy(p) ==
    /\ req[p].pc = "copy"
    /\ IF current_data = None
       THEN req' = [req EXCEPT ![p] = Done(@, 500, "AttributeError")]
       ELSE LET r == apply_filters(req[p].op, current_data, req[p].params)
            IN  IF r.raised
                THEN req' = [req EXCEPT ![p] = Done(@, 500, r.error)]
                ELSE req' = [req EXCEPT ![p] = [@ EXCEPT !.local = r.value, !.pc = "run"]]
    /\ UNCHANGED <<current_data, temp_upload, default_csv, server, engineVars>>

\* a handler that hands the global to the engine instead of its df
analysis_frame_global(local, global) == global

\* the frame a handler hands to the engine: its local df
analysis_frame(local, global) == local

\* the outcomes of the engine calls of a handler on the frame d
respond(op, d, a) ==
    IF op = "analyze" THEN {run_full_analysis(d)}
    ELSE IF op = "detect_anomalies" THEN run_anomaly_detection(d)
    ELSE IF a.include_anomalies
    THEN UNION { IF x.raised THEN {x} ELSE generate_all_visualizations(d, x.value) :
                   x \in run_anomaly_detection(d) }
    ELSE generate_all_visualizations(d, None)

\* the engine calls and the response: 500 for every exception
AnalysisRun(p) ==
    /\ req[p].pc = "run"
    /\ \E r \in respond(req[p].op, analysis_frame(req[p].local, current_data), req[p].params) :
          IF r.raised
          THEN req' = [req EXCEPT ![p] = Done(@, 500, r.error)]
          ELSE req' = [req EXCEPT ![p] = Done([@ EXCEPT !.result = r.value], 200, "")]
    /\ UNCHANGED <<current_data, temp_upload, default_csv, server, engineVars>>

QueryOps == {"pincodes", "date_range", "export"}

\* DataFrame.to_csv(index=False): the header and one line per row, without
\* the index, the dates as text
to_csv(data) ==
    [header |-> data.columns,
     lines |-> [i \in 1..Len(data.rows) |->
                   [f \in (DOMAIN data.rows[i]) \ {"index"} |->
                       IF f = "date" THEN StrftimeYMD(data.rows[i].date)
                       ELSE data.rows[i][f]]]]

\* a handler of the filter lists or of the export that goes on without the
\* test of current_data
QueryBegin_unchecked(p) ==
    /\ Free(p)
    /\ \E op \in QueryOps :
          req' = [req EXCEPT ![p] = [IdleReq EXCEPT !.op = op, !.pc = "query"]]
    /\ UNCHANGED <<current_data, temp_upload, default_csv, server, engineVars>>

\* get_pincodes, get_date_range and export_csv up to the test
\* `current_data is None` and its 400 response
QueryBegin(p) ==
    /\ Free(p)
    /\ \E op \in QueryOps :
          LET start == [IdleReq EXCEPT !.op = op]
          IN  IF current_data = None
              THEN req' = [req EXCEPT ![p] = Done(start, 400, "No data loaded")]
              ELSE req' = [req EXCEPT ![p] = [start EXCEPT !.pc = "query"]]
    /\ UNCHANGED <<current_data, temp_upload, default_csv, server, engineVars>>

\* the first read of current_data after the test: the sorted unique
\* pincodes, the text of the table, or the least date; strftime of NaT
\* raises ValueError, and an exception that leaves get_pincodes or
\* get_date_range is answered with 500
QueryRead(p) ==
    /\ req[p].pc = "query"
    /\ IF current_data = None
       THEN req' = [req EXCEPT ![p] = Done(@, 500, "TypeError")]
       ELSE IF req[p].op = "pincodes"
       THEN req' = [req EXCEPT ![p] =
                       Done([@ EXCEPT !.result =
                                SortedSeq({current_data.rows[i].pincode :
                                             i \in 1..Len(current_data.rows)})],
                            200, "")]
       ELSE IF req[p].op = "export"
       THEN req' = [req EXCEPT ![p] =
                       Done([@ EXCEPT !.result = to_csv(current_data)], 200, "")]
       ELSE IF DateMin(current_data.rows) = NaT
       THEN req' = [req EXCEPT ![p] = Done(@, 500, "ValueError")]
       ELSE req' = [req EXCEPT ![p] =
                       [@ EXCEPT !.result =
                                     [min |-> StrftimeYMD(DateMin(current_data.rows))],
                                 !.pc = "max"]]
    /\ UNCHANGED <<current_data, temp_upload, default_csv, server, engineVars>>

\* get_date_range's second read of current_data, for the greatest date
QueryMax(p) ==
    /\ req[p].pc = "max"
    /\ IF current_data = None
       THEN req' = [req EXCEPT ![p] = Done([@ EXCEPT !.result = None], 500, "TypeError")]
       ELSE IF DateMax(current_data.rows) = NaT
       THEN req' = [req EXCEPT ![p] = Done([@ EXCEPT !.result = None], 500, "ValueError")]
       ELSE req' = [req EXCEPT ![p] =
                       Done([@ EXCEPT !.result =
                                [min |-> @.min,
                                 max |-> StrftimeYMD(DateMax(current_data.rows))]],
                            200, "")]
    /\ UNCHANGED <<current_data, temp_upload, default_csv, server, engineVars>>

EngineOff == df = None /\ src = None /\ args = None /\ out = None /\ phase = "off"

AppIdle ==
    /\ current_data = None
    /\ temp_upload = None
    /\ default_csv = None
    /\ server = "starting"
    /\ req = [p \in Procs |-> IdleReq]

Init ==
    /\ current_data = None
    /\ temp_upload = None
    /\ default_csv \in DefaultFiles
    /\ server = "starting"
    /\ req = [p \in Procs |-> IdleReq]
    /\ EngineOff

Next ==
    \/ StartServer
    \/ \E p \in Procs : LoadDefault(p)
    \/ \E p \in Procs : UploadBegin(p)
    \/ \E p \in Procs : UploadSave(p)
    \/ \E p \in Procs : UploadValidate(p)
    \/ \E p \in Procs : UploadStore(p)
    \/ \E p \in Procs : UploadRemove(p)
    \/ \E p \in Procs : AnalysisBegin(p)
    \/ \E p \in Procs : AnalysisCopy(p)
    \/ \E p \in Procs : AnalysisRun(p)
    \/ \E p \in Procs : QueryBegin(p)
    \/ \E p \in Procs : QueryRead(p)
    \/ \E p \in Procs : QueryMax(p)

Spec == Init /\ [][Next]_vars

(***************************************************************************)
(* The preprocessor applied to a raw table, once or twice, and the summary *)
(* of the result (specification SpecPreprocess).                           *)
(***************************************************************************)
\* a day-first date, a second one, and ISO text, which the strict format of
\* parse_dates rejects
RawDates == {Txt(1, 1, 2024), Txt(2, 1, 2024), Txt(2024, 1, 3)}

Pincodes == {1, 2}

\* complete counts, and counts whose first band is missing
AgeTriples == {<<Num(2), Num(3), Num(5)>>, <<NaN, Num(3), Num(5)>>}

\* read_csv's frames of n rows: the index is the RangeIndex 0..n-1
RawFramesOf(n, dates, pins, ages) ==
    { Frame(REQUIRED_COLUMNS,
            [i \in 1..n |-> RawRow(i - 1, d[i], p[i], a[i][1], a[i][2], a[i][3])]) :
        d \in [1..n -> dates], p \in [1..n -> pins], a \in [1..n -> ages] }

RawFrames(maxn) ==
    UNION { RawFramesOf(n, RawDates, Pincodes, AgeTriples) : n \in 0..maxn }

InitPreprocess ==
    /\ AppIdle
    /\ df \in RawFrames(MaxRows)
    /\ src = None
    /\ args = None
    /\ out = None
    /\ phase = "raw"

\* preprocess_data(df), on a raw table and again on its own result
PreprocessData ==
    /\ phase \in {"raw", "preprocessed"}
    /\ df' \in preprocess_data(df)
    /\ src' = df
    /\ phase' = IF phase = "raw" THEN "preprocessed" ELSE "reprocessed"
    /\ UNCHANGED <<args, out, appVars>>

\* calculate_summary_statistics(df) on a preprocessed or filtered frame
SummaryStatistics ==
    /\ phase \in {"preprocessed", "reprocessed", "date", "date_pincode"}
    /\ out' = calculate_summary_statistics(df)
    /\ phase' = "summarised"
    /\ UNCHANGED <<df, src, args, appVars>>

NextPreprocess == PreprocessData \/ SummaryStatistics

SpecPreprocess == InitPreprocess /\ [][NextPreprocess]_vars

(***************************************************************************)
(* The filter layer applied to a preprocessed table (specification         *)
(* SpecFilter).                                                            *)
(***************************************************************************)
FilterDates == {Txt(1, 1, 2024), Txt(2, 1, 2024), Txt(3, 1, 2024)}

FilterFrames(maxn) ==
    UNION { preprocess_data(t) :
              t \in UNION { RawFramesOf(n, FilterDates, Pincodes,
                                        {<<Num(2), Num(3), Num(5)>>}) : n \in 0..maxn } }

\* no bound, "", a Timestamp, ISO text (2 January), month-first text
\* (3 January) and text that is no date
DateArgs ==
    {None, EmptyStr, Ts(1), Txt(2024, 1, 2), Txt(1, 3, 2024), Txt(31, 2, 2024)}

\* scalars (one of them the code 12 of no row), a list with a repeated code,
\* a mixed list, the
\* empty list, and a str that is no number
PincodeArgs ==
    {PInt(1), PStr(<<"0", "2">>), PStr(<<"1", "2">>),
     PList(<<PInt(2), PInt(1), PInt(2)>>), PList(<<PStr(<<"1">>), PInt(2)>>),
     PList(<< >>), PStr(<<"x">>)}

NoArgs == [start_date |-> None, end_date |-> None, pincodes |-> None]

InitFilter ==
    /\ AppIdle
    /\ df \in FilterFrames(MaxRows)
    /\ src = None
    /\ args = NoArgs
    /\ out = None
    /\ phase = "preprocessed"

\* df = filter_by_date_range(df, start_date, end_date), first or after the
\* pincode filter
FilterByDateRange ==
    /\ phase \in {"preprocessed", "pincode"}
    /\ \E s \in DateArgs, e \in DateArgs :
          LET r == filter_by_date_range(df, s, e)
          IN  /\ args' = [args EXCEPT !.start_date = s, !.end_date = e]
              /\ IF r.raised
                 THEN /\ phase' = "raised"
                      /\ out' = r
                      /\ UNCHANGED df
                 ELSE /\ phase' = IF phase = "preprocessed" THEN "date" ELSE "pincode_date"
                      /\ df' = r.value
                      /\ UNCHANGED out
    /\ src' = IF phase = "preprocessed" THEN df ELSE src
    /\ UNCHANGED appVars

\* df = filter_by_pincode(df, pincodes), first or after the date filter
FilterByPincode ==
    /\ phase \in {"preprocessed", "date"}
    /\ \E c \in PincodeArgs :
          LET r == filter_by_pincode(df, c)
          IN  /\ args' = [args EXCEPT !.pincodes = c]
              /\ IF r.raised
                 THEN /\ phase' = "raised"
                      /\ out' = r
                      /\ UNCHANGED df
                 ELSE /\ phase' = IF phase = "preprocessed" THEN "pincode" ELSE "date_pincode"
                      /\ df' = r.value
                      /\ UNCHANGED out
    /\ src' = IF phase = "preprocessed" THEN df ELSE src
    /\ UNCHANGED appVars

\* after a date filter with bounds start <= end, the source frame is also
\* filtered by the complement of the range: the dates up to the day before
\* start, and the dates from the day after end
FilterComplement ==
    /\ phase = "date"
    /\ LET lo == IF Truthy(args.start_date) THEN DateBound(args.start_date) ELSE None
           hi == IF Truthy(args.end_date) THEN DateBound(args.end_date) ELSE None
       IN  /\ (lo # None /\ hi # None) => lo.ord <= hi.ord
           /\ out' = [before |-> IF lo = None THEN << >>
                                 ELSE filter_by_date_range(src, None, Ts(lo.ord - 1)).value.rows,
                      after |-> IF hi = None THEN << >>
                                ELSE filter_by_date_range(src, Ts(hi.ord + 1), None).value.rows]
    /\ phase' = "complement"
    /\ UNCHANGED <<df, src, args, appVars>>

\* run_full_analysis(df) on the frame analyze_data has filtered, by date
\* and then by pincode
RunFullAnalysis ==
    /\ phase \in {"date", "date_pincode"}
    /\ out' = run_full_analysis(df)
    /\ phase' = "analysed"
    /\ UNCHANGED <<df, src, args, appVars>>

NextFilter ==
    \/ FilterByDateRange
    \/ FilterByPincode
    \/ FilterComplement
    \/ SummaryStatistics
    \/ RunFullAnalysis

SpecFilter == InitFilter /\ [][NextFilter]_vars

(***************************************************************************)
(* The geographic analysis of a one-day table with up to MaxPincodes       *)
(* pincodes (specification SpecGeo).                                       *)
(***************************************************************************)
MaxPincodes == 11

\* the counts of row i: the first rows also take larger and missing counts
GeoAges(i) ==
    IF i <= 2
    THEN {<<Num(0), Num(0), Num(0)>>, <<Num(1), Num(0), Num(0)>>,
          <<Num(2), Num(1), Num(1)>>, <<NaN, Num(1), Num(0)>>}
    ELSE {<<Num(0), Num(0), Num(0)>>, <<Num(1), Num(0), Num(0)>>}

RECURSIVE GeoAgeSeqs(_)
\* the choices of counts for the rows 1..n
GeoAgeSeqs(n) ==
    IF n = 0 THEN {<< >>}
    ELSE {Append(a, t) : a \in GeoAgeSeqs(n - 1), t \in GeoAges(n)}

\* a preprocessed frame of n rows of 1 January: row i is of pincode i, but
\* the last row is of pincode last
GeoFrame(n, a, last) ==
    Frame(REQUIRED_COLUMNS \cup DERIVED_COLUMNS,
          [i \in 1..n |->
              DerivedRow(RawRow(i - 1, Ts(1), IF i = n THEN last ELSE i,
                                a[i][1], a[i][2], a[i][3]))])

\* the last row is of its own pincode or a second row of pincode 1
InitGeo ==
    /\ AppIdle
    /\ \E n \in 0..MaxPincodes :
          \E a \in GeoAgeSeqs(n), last \in {n, 1} : df = GeoFrame(n, a, last)
    /\ src = None
    /\ args = None
    /\ out = None
    /\ phase = "preprocessed"

\* analyze_geographic_distribution(df)
GeographicDistribution ==
    /\ phase = "preprocessed"
    /\ out' = analyze_geographic_distribution(df)
    /\ phase' = "geographic"
    /\ UNCHANGED <<df, src, args, appVars>>

\* detect_pincode_anomalies(df) with the default percentile
PincodeAnomalies ==
    /\ phase = "preprocessed"
    /\ out' \in detect_pincode_anomalies(df, 95)
    /\ phase' = "pincodes"
    /\ UNCHANGED <<df, src, args, appVars>>

NextGeo == GeographicDistribution \/ PincodeAnomalies

SpecGeo == InitGeo /\ [][NextGeo]_vars

(***************************************************************************)
(* The anomaly engine applied to a table of up to MaxDays days             *)
(* (specification SpecAnomaly).                                            *)
(***************************************************************************)
MaxDays == 9

\* the first band's count of day i: the first days also take a larger and a
\* missing count
DayValues(i) ==
    IF i <= 2 THEN {Num(0), Num(1), Num(3), NaN} ELSE {Num(0), Num(1)}

RECURSIVE DayValueSeqs(_)
DayValueSeqs(n) ==
    IF n = 0 THEN {<< >>}
    ELSE {Append(a, t) : a \in DayValueSeqs(n - 1), t \in DayValues(n)}

\* a preprocessed frame with one row per value: row i is of day i, or, with
\* dup, the first two rows are of day 1 and row i of day i - 1
DayFrame(vals, dup) ==
    Frame(REQUIRED_COLUMNS \cup DERIVED_COLUMNS,
          [i \in 1..Len(vals) |->
              DerivedRow(RawRow(i - 1, Ts(IF dup /\ i >= 2 THEN i - 1 ELSE i),
                                1 + (i % 2), vals[i], Num(0), Num(0)))])

\* the per-day series 10, 10, 10, 10, 100
SpikeSeries == <<Num(10), Num(10), Num(10), Num(10), Num(100)>>

\* a series of n days of the value base, but for the days of spikes
LongSeries(n, base, spikes) ==
    [i \in 1..n |-> IF i \in DOMAIN spikes THEN Num(spikes[i]) ELSE Num(base)]

\* series of sixty days with six outlying days: spikes of two heights,
\* spikes and dips, and six equal spikes
LongFrames ==
    {DayFrame(LongSeries(60, 0, (5 :> 4) @@ (10 :> 5) @@ (15 :> 4) @@ (20 :> 5)
                                     @@ (25 :> 4) @@ (30 :> 5)), FALSE),
     DayFrame(LongSeries(60, 5, (5 :> 0) @@ (10 :> 10) @@ (15 :> 0) @@ (20 :> 10)
                                     @@ (25 :> 0) @@ (30 :> 10)), FALSE),
     DayFrame(LongSeries(60, 0, (5 :> 1) @@ (10 :> 1) @@ (15 :> 1) @@ (20 :> 1)
                                     @@ (25 :> 1) @@ (30 :> 1)), FALSE)}

\* the thresholds of a call: the default, 1, 0 and -1
Thresholds == {ANOMALY_THRESHOLD, Stat(1, 1), Stat(0, 1), Stat(0 - 1, 1)}

InitAnomaly ==
    /\ AppIdle
    /\ \/ \E n \in 0..MaxDays :
             \E vals \in DayValueSeqs(n), dup \in BOOLEAN : df = DayFrame(vals, dup)
       \/ df = DayFrame(SpikeSeries, FALSE)
       \/ df \in LongFrames
    /\ src = None
    /\ args = None
    /\ out = None
    /\ phase = "preprocessed"

\* calculate_zscore_anomalies(df, threshold=t)
ZscoreAnomalies ==
    /\ phase = "preprocessed"
    /\ \E t \in Thresholds :
          /\ args' = t
          /\ out' = calculate_zscore_anomalies(df, "total_enrolments", t)
    /\ phase' = "zscore"
    /\ UNCHANGED <<df, src, appVars>>

\* calculate_rolling_anomalies(df) with the default window and threshold
RollingAnomalies ==
    /\ phase = "preprocessed"
    /\ out' = calculate_rolling_anomalies(df, "total_enrolments", ROLLING_WINDOW,
                                          ANOMALY_THRESHOLD)
    /\ phase' = "rolling"
    /\ UNCHANGED <<df, src, args, appVars>>

\* run_anomaly_detection(df)
RunAnomalyDetection ==
    /\ phase = "preprocessed"
    /\ out' \in run_anomaly_detection(df)
    /\ phase' = "detected"
    /\ UNCHANGED <<df, src, args, appVars>>

NextAnomaly == ZscoreAnomalies \/ RollingAnomalies \/ RunAnomalyDetection

SpecAnomaly == InitAnomaly /\ [][NextAnomaly]_vars

(***************************************************************************)
(* Properties of the request layer (specification Spec).                   *)
(***************************************************************************)
LacksColumn(t) == t # None /\ ~validate_columns(t)

\* a request whose table lacks a required column has failed with the
\* ValueError of validate_columns and holds no preprocessed frame
C1_Rejected ==
    \A p \in Procs :
        LacksColumn(req[p].loaded) =>
            /\ req[p].pc = "done"
            /\ req[p].status \in {400, 500}
            /\ req[p].error = "ValueError"
            /\ req[p].df = None

\* the step in which load_default_data or upload_data reads a table that
\* lacks a column leaves current_data alone, and current_data is only ever
\* assigned the frame preprocessed from a validated table
C1_NoWrite ==
    /\ \A p \in Procs :
          ((LoadDefault(p) \/ UploadValidate(p)) /\ LacksColumn(req'[p].loaded))
              => current_data' = current_data
    /\ (current_data' # current_data /\ server = "serving") =>
          \E p \in Procs :
              /\ req'[p].loaded # None
              /\ validate_columns(req'[p].loaded)
              /\ req'[p].df = current_data'

\* C1: loading a table that lacks one of the required columns fails with
\* the error raised by validate_columns before preprocessing runs, produces
\* no partial result, and leaves current_data as it was, in the load-default
\* and in the upload request.
C1_SchemaError == [] C1_Rejected /\ [][C1_NoWrite]_vars

\* an upload and a load-default request were both rejected for a missing
\* column while a dataset was loaded
C1_Witness ==
    /\ current_data # None
    /\ \E p, q \in Procs :
          /\ req[p].op = "upload" /\ LacksColumn(req[p].loaded)
          /\ req[p].status = 400
          /\ req[q].op = "load_default" /\ LacksColumn(req[q].loaded)
          /\ req[q].status = 500

\* a frame as preprocess_data leaves it
IsPreprocessed(t) ==
    /\ REQUIRED_COLUMNS \cup {"total_enrolments"} \subseteq t.columns
    /\ \A i \in 1..Len(t.rows) :
          /\ t.rows[i].date.kind = "ts"
          /\ t.rows[i].index = i - 1
          /\ t.rows[i].total_enrolments =
                FloatAdd(FloatAdd(t.rows[i].age_0_5, t.rows[i].age_5_17),
                         t.rows[i].age_18_greater)
    /\ \A i, j \in 1..Len(t.rows) :
          i < j => t.rows[i].date.ord <= t.rows[j].date.ord

\* C3: in every reachable state the current dataset is absent or a table
\* produced by preprocess_data: every record has a parsed date, records are
\* in ascending date order, and the required columns and total_enrolments
\* are present.
C3_CurrentDataPreprocessed == current_data = None \/ IsPreprocessed(current_data)

\* the current dataset comes from an upload whose unparseable date was
\* dropped and whose rows had to be reordered
C3_Witness ==
    /\ current_data # None
    /\ \E p \in Procs :
          /\ req[p].op = "upload"
          /\ req[p].df = current_data
          /\ Len(current_data.rows) = 2
          /\ Len(req[p].loaded.rows) = 3
          /\ req[p].loaded.rows[1].date = Txt(2, 1, 2024)
          /\ current_data.rows[1].date = Ts(1)

(***************************************************************************)
(* Properties of the preprocessor and the summary (SpecPreprocess).        *)
(***************************************************************************)
Preprocessed == phase \in {"preprocessed", "reprocessed", "summarised"}

AgeSum(rows) ==
    SeriesSum(Column(rows, "age_0_5")) + SeriesSum(Column(rows, "age_5_17"))
        + SeriesSum(Column(rows, "age_18_greater"))

BreakdownSum(summary) ==
    summary.age_group_breakdown.age_0_5 + summary.age_group_breakdown.age_5_17
        + summary.age_group_breakdown.age_18_greater

HasMissingAge(rows) ==
    \E i \in 1..Len(rows) :
        rows[i].age_0_5.nan \/ rows[i].age_5_17.nan \/ rows[i].age_18_greater.nan

\* C2 as stated: for all tables, including those with missing age values,
\* the three age sums add up to the sum of total_enrolments, in the frame and
\* in the summary.
C2_SumsAgree ==
    /\ Preprocessed => AgeSum(df.rows) = SeriesSum(Column(df.rows, "total_enrolments"))
    /\ (phase = "summarised" /\ ~out.raised) =>
          BreakdownSum(out.value) = out.value.total_enrolments

\* C2 amended: for all tables in which no age-band value is missing, the
\* three age sums add up to the sum of total_enrolments, in the frame and in
\* the summary.
C2_SumsAgreeNoMissing ==
    /\ (Preprocessed /\ ~HasMissingAge(df.rows)) =>
          AgeSum(df.rows) = SeriesSum(Column(df.rows, "total_enrolments"))
    /\ (phase = "summarised" /\ ~out.raised /\ ~HasMissingAge(df.rows)) =>
          BreakdownSum(out.value) = out.value.total_enrolments

\* a summary of two or more complete rows with a positive total
C2_Witness ==
    /\ phase = "summarised"
    /\ ~out.raised
    /\ ~HasMissingAge(df.rows)
    /\ Len(df.rows) >= 2
    /\ out.value.total_enrolments >= 20

\* C4: preprocess_data on the output of preprocess_data returns an identical
\* table: no further row is dropped, the derived columns and the row order
\* are the same.
C4_Idempotent == phase = "reprocessed" => df = src

DistinctDates(rows) == {rows[i].date.ord : i \in 1..Len(rows)}

StatIs(s, n) == ~s.nan /\ s.num = n * s.den

\* C9: for a preprocessed table whose rows share one date the summary does
\* not raise; mean, median, min and max equal that date's total, which is
\* total_enrolments; std is NaN; unique_pincodes counts the distinct
\* pincodes; date_range.days is 0.
C9_SingleDate ==
    (phase = "summarised" /\ Cardinality(DistinctDates(df.rows)) = 1) =>
        /\ ~out.raised
        /\ StatIs(out.value.daily_statistics.mean, out.value.total_enrolments)
        /\ StatIs(out.value.daily_statistics.median, out.value.total_enrolments)
        /\ out.value.daily_statistics.min = out.value.total_enrolments
        /\ out.value.daily_statistics.max = out.value.total_enrolments
        /\ out.value.total_enrolments = SeriesSum(Column(df.rows, "total_enrolments"))
        /\ out.value.daily_statistics.std.nan
        /\ out.value.unique_pincodes =
              Cardinality({df.rows[i].pincode : i \in 1..Len(df.rows)})
        /\ out.value.date_range.days = 0
        /\ out.value.date_range.start = out.value.date_range.end

\* the summary of three rows of one date and two pincodes
C9_Witness ==
    /\ phase = "summarised"
    /\ Len(df.rows) = 3
    /\ Cardinality(DistinctDates(df.rows)) = 1
    /\ ~out.raised
    /\ out.value.unique_pincodes = 2
    /\ out.value.total_enrolments = 20
    /\ out.value.daily_statistics.std.nan

\* C15: preprocess_data orders the rows by date ascending and breaks ties
\* by the original input order: of two rows of one date, the row that came
\* first in the input comes first in the output.
C15_StableSort ==
    phase = "preprocessed" =>
        LET t == add_derived_columns(parse_dates(src))
        IN  \E f \in DateOrders(t.rows, 1..Len(t.rows)) :
                /\ \A i, j \in 1..Len(f) :
                      (i < j /\ t.rows[f[i]].date = t.rows[f[j]].date) => f[i] < f[j]
                /\ df.rows = [i \in 1..Len(f) |-> [t.rows[f[i]] EXCEPT !.index = i - 1]]

(***************************************************************************)
(* Properties of the filter layer (SpecFilter).                            *)
(***************************************************************************)
\* the bounds the arguments stand for: None when the bound is omitted
LowerBound == IF Truthy(args.start_date) THEN DateBound(args.start_date) ELSE None

UpperBound == IF Truthy(args.end_date) THEN DateBound(args.end_date) ELSE None

InDateRange(r) ==
    /\ LowerBound # None => LowerBound.ord <= r.date.ord
    /\ UpperBound # None => r.date.ord <= UpperBound.ord

RowSet(rows) == {rows[i] : i \in 1..Len(rows)}

\* rows is a subsequence of the source frame: labels ascend and every row
\* is the source row of its label
KeepsOrder(rows) ==
    /\ \A i, j \in 1..Len(rows) : i < j => rows[i].index < rows[j].index
    /\ \A i \in 1..Len(rows) : rows[i] = src.rows[rows[i].index + 1]

\* C5: filter_by_date_range returns exactly the rows with
\* start <= date <= end, both bounds inclusive, an omitted bound being no
\* bound; the rows keep their relative order.
C5_DateRange ==
    phase = "date" =>
        /\ RowSet(df.rows) = {r \in RowSet(src.rows) : InDateRange(r)}
        /\ KeepsOrder(df.rows)
        /\ df.columns = src.columns

\* both bounds are given and rows on the lower bound, on the upper bound
\* and outside of the range exist
C5_Witness ==
    /\ phase = "date"
    /\ LowerBound # None /\ UpperBound # None
    /\ LowerBound.ord < UpperBound.ord
    /\ \E r \in RowSet(df.rows) : r.date.ord = LowerBound.ord
    /\ \E r \in RowSet(df.rows) : r.date.ord = UpperBound.ord
    /\ \E r \in RowSet(src.rows) : r.date.ord < LowerBound.ord

\* C6: the rows of a date range and the rows of the complement range are
\* disjoint and together they are the rows of the table.
C6_Partition ==
    phase = "complement" =>
        /\ RowSet(df.rows) \cup RowSet(out.before) \cup RowSet(out.after) = RowSet(src.rows)
        /\ RowSet(df.rows) \cap RowSet(out.before) = {}
        /\ RowSet(df.rows) \cap RowSet(out.after) = {}
        /\ RowSet(out.before) \cap RowSet(out.after) = {}
        /\ Len(df.rows) + Len(out.before) + Len(out.after) = Len(src.rows)

\* the range, the dates before it and the dates after it all hold rows
C6_Witness ==
    /\ phase = "complement"
    /\ df.rows # << >>
    /\ out.before # << >>
    /\ out.after # << >>

\* the set of codes an argument of filter_by_pincode stands for
CodeSet(c) ==
    IF c.kind \in {"int", "str"} THEN {PyInt(c).value}
    ELSE {PyInt(c.items[i]).value : i \in 1..Len(c.items)}

\* C7: the date filter and the pincode filter commute: in either order the
\* result is exactly the rows within the bounds whose pincode is in the set
\* of codes, whatever the order and the repetitions of the codes, a scalar
\* code counting as the one-element collection.
C7_Commute ==
    phase \in {"date_pincode", "pincode_date"} =>
        /\ RowSet(df.rows) =
              {r \in RowSet(src.rows) : InDateRange(r) /\ r.pincode \in CodeSet(args.pincodes)}
        /\ KeepsOrder(df.rows)

\* the pincode filter ran first with a str scalar and the date filter then
\* cut rows away at both ends
C7_Witness ==
    /\ phase = "pincode_date"
    /\ args.pincodes = PStr(<<"0", "2">>)
    /\ LowerBound # None /\ UpperBound # None
    /\ Len(df.rows) = 1
    /\ Len(src.rows) = 3
    /\ \E r \in RowSet(src.rows) : r.pincode = 2 /\ ~InDateRange(r)
    /\ \E r \in RowSet(src.rows) : r.pincode = 1 /\ InDateRange(r)

(***************************************************************************)
(* Properties of the analysis engine (SpecFilter, SpecGeo).                *)
(***************************************************************************)
\* C8: on an empty table calculate_summary_statistics and run_full_analysis
\* raise no exception and return zeroed results: the summary sums are 0.
C8_EmptyTable ==
    (phase \in {"summarised", "analysed"} /\ df.rows = << >>) =>
        /\ ~out.raised
        /\ phase = "summarised" =>
              (out.value.total_enrolments = 0 /\ BreakdownSum(out.value) = 0)
        /\ phase = "analysed" =>
              (out.value.summary.total_enrolments = 0 /\ BreakdownSum(out.value.summary) = 0)

GeoPincodes == {df.rows[i].pincode : i \in 1..Len(df.rows)}

GeoTotal == SeriesSum(Column(df.rows, "total_enrolments"))

GeoRatio == out.value.pincode_concentration.top_10_percent

\* ratio is a number within [0, 100]
WithinPercent(ratio) ==
    /\ ~ratio.nan
    /\ ratio.den > 0
    /\ 0 <= ratio.num
    /\ ratio.num <= 100 * ratio.den

\* C10 as stated: for any non-empty table the concentration ratio is a
\* defined number within [0, 100], and it is 100 when the table has at most
\* 10 distinct pincodes.
C10_Concentration ==
    (phase = "geographic" /\ df.rows # << >>) =>
        /\ ~out.raised
        /\ WithinPercent(GeoRatio)
        /\ Cardinality(GeoPincodes) <= 10 => StatIs(GeoRatio, 100)

\* C10 amended: for any non-empty table whose grand total is positive the
\* concentration ratio is a defined number within [0, 100], and it is 100
\* when the table has at most 10 distinct pincodes; when the grand total is
\* 0 the ratio is NaN.
C10_ConcentrationPositive ==
    (phase = "geographic" /\ df.rows # << >>) =>
        /\ ~out.raised
        /\ GeoTotal > 0 =>
              /\ WithinPercent(GeoRatio)
              /\ Cardinality(GeoPincodes) <= 10 => StatIs(GeoRatio, 100)
        /\ GeoTotal = 0 => GeoRatio.nan

\* eleven pincodes with positive totals: the ratio is below 100
C10_Witness ==
    /\ phase = "geographic"
    /\ Cardinality(GeoPincodes) = 11
    /\ GeoTotal > 0
    /\ WithinPercent(GeoRatio)
    /\ GeoRatio.num < 100 * GeoRatio.den

(***************************************************************************)
(* Properties of the anomaly engine (SpecAnomaly).                         *)
(***************************************************************************)
\* the sum of the totals of the rows of day d, missing totals skipped
DayTotal(d) ==
    SeriesSum(Column(SelectRows(df.rows, [i \in 1..Len(df.rows) |-> df.rows[i].date.ord = d]),
                     "total_enrolments"))

RECURSIVE DaySum(_)
DaySum(D) ==
    IF D = {} THEN 0 ELSE LET d == CHOOSE x \in D : TRUE IN DayTotal(d) + DaySum(D \ {d})

RECURSIVE DaySumSq(_)
DaySumSq(D) ==
    IF D = {} THEN 0
    ELSE LET d == CHOOSE x \in D : TRUE IN DayTotal(d) * DayTotal(d) + DaySumSq(D \ {d})

\* the per-day series of df as the triple <<n, sum, sum of squares>>
DayMoments ==
    <<Cardinality(DistinctDates(df.rows)), DaySum(DistinctDates(df.rows)),
      DaySumSq(DistinctDates(df.rows))>>

\* n * n * (n - 1) * variance of the series of moments m
VarScaled(m) == m[1] * m[3] - m[2] * m[2]

\* z is a number: two days or more, not all of one value
ZDefined(m) == m[1] >= 2 /\ VarScaled(m) # 0

\* n * (v - mean)
DevScaled(v, m) == m[1] * v - m[2]

\* z^2 - t^2 for t = a/b, scaled by the positive n * VarScaled * b^2
SqExcess(v, t, m) ==
    DevScaled(v, m) * DevScaled(v, m) * (m[1] - 1) * t.den * t.den
        - t.num * t.num * m[1] * VarScaled(m)

\* z > t
ZOver(v, t, m) ==
    /\ ZDefined(m)
    /\ IF t.num >= 0 THEN DevScaled(v, m) > 0 /\ SqExcess(v, t, m) > 0
       ELSE DevScaled(v, m) >= 0 \/ SqExcess(v, t, m) < 0

\* z < -t
ZUnder(v, t, m) ==
    /\ ZDefined(m)
    /\ IF t.num >= 0 THEN DevScaled(v, m) < 0 /\ SqExcess(v, t, m) > 0
       ELSE DevScaled(v, m) <= 0 \/ SqExcess(v, t, m) < 0

\* C11: calculate_zscore_anomalies works on the per-day sums and flags
\* exactly the days with |z| > threshold; is_anomaly holds if and only if
\* anomaly_type is 'high' (z > threshold) or 'low' (z < -threshold), every
\* other day is 'normal'; with a single day or with days of one value no
\* day is flagged.
C11_ZscoreFlags ==
    phase = "zscore" =>
        LET m == DayMoments
        IN  /\ Len(out) = m[1]
            /\ \A k \in 1..Len(out) :
                  /\ out[k].date.ord \in DistinctDates(df.rows)
                  /\ \A j \in 1..(k - 1) : out[j].date.ord < out[k].date.ord
                  /\ out[k].total_enrolments = DayTotal(out[k].date.ord)
                  /\ out[k].is_anomaly <=>
                        (ZOver(out[k].total_enrolments, args, m)
                            \/ ZUnder(out[k].total_enrolments, args, m))
                  /\ out[k].is_anomaly <=> (out[k].anomaly_type \in {"high", "low"})
                  /\ out[k].anomaly_type \in {"high", "low", "normal"}
                  /\ out[k].anomaly_type = "high" => ZOver(out[k].total_enrolments, args, m)
                  /\ out[k].anomaly_type = "low" => ZUnder(out[k].total_enrolments, args, m)
                  /\ ~ZDefined(m) => (~out[k].is_anomaly /\ out[k].anomaly_type = "normal")

\* with threshold 1 a day is flagged high, a day is flagged low and a day
\* is normal, in a table with two rows of one day
C11_Witness ==
    /\ phase = "zscore"
    /\ args = Stat(1, 1)
    /\ Len(df.rows) > Len(out)
    /\ \E k \in 1..Len(out) : out[k].anomaly_type = "high" /\ out[k].is_anomaly
    /\ \E k \in 1..Len(out) : out[k].anomaly_type = "low" /\ out[k].is_anomaly
    /\ \E k \in 1..Len(out) : out[k].anomaly_type = "normal" /\ ~out[k].is_anomaly

\* the per-day series of the table is 10, 10, 10, 10, 100
IsSpikeSeries ==
    /\ Len(df.rows) = 5
    /\ \A i \in 1..5 : df.rows[i].total_enrolments = SpikeSeries[i]

\* C12 as stated: for the per-day series [10, 10, 10, 10, 100] and
\* threshold 2.5 the detector flags the day of value 100 as 'high' and
\* classifies the four other days as 'normal'.
C12_SpikeFlagged ==
    (phase = "zscore" /\ IsSpikeSeries /\ args = ANOMALY_THRESHOLD) =>
        /\ out[5].is_anomaly
        /\ out[5].anomaly_type = "high"
        /\ \A k \in 1..4 : ~out[k].is_anomaly /\ out[k].anomaly_type = "normal"

\* C12 amended: for the per-day series [10, 10, 10, 10, 100] and threshold
\* 2.5 the z-score of the day of value 100 is 4/sqrt(5) (about 1.79), below
\* the threshold, so the detector flags no day: all five days are 'normal'.
C12_SpikeNotFlagged ==
    (phase = "zscore" /\ IsSpikeSeries /\ args = ANOMALY_THRESHOLD) =>
        /\ \A k \in 1..5 : ~out[k].is_anomaly /\ out[k].anomaly_type = "normal"
        /\ ~out[5].z_score.nan
        /\ out[5].z_score.sign = 1
        /\ 5 * out[5].z_score.sqnum = 16 * out[5].z_score.sqden

\* the detector ran on the series with the default threshold
C12_Witness ==
    /\ phase = "zscore"
    /\ IsSpikeSeries
    /\ args = ANOMALY_THRESHOLD
    /\ out[5].total_enrolments = 100
    /\ out[1].z_score.sign = 0 - 1

\* day k of a series of n days has no full centered window
EdgeDay(k, n) ==
    \/ k <= ROLLING_WINDOW \div 2
    \/ k > n - (ROLLING_WINDOW \div 2)
    \/ n < ROLLING_WINDOW

IsZero(x) == ~x.nan /\ x.sqnum = 0 /\ x.sqden # 0

ExplainedDay(e, flagged) ==
    {k \in 1..Len(flagged) : StrftimeYMD(flagged[k].date) = e.date}

\* C18: run_anomaly_detection explains exactly min(5, number of flagged
\* days) days: the flagged days of the highest z-scores, in descending z
\* order, equal z-scores in date order; every explained day is one of
\* flagged_days, none is 'normal', and anomalies_found is the length of
\* flagged_days for the z-score and for the rolling analysis.  Within one
\* series z ascends with the day's total, which stands for z here.
C18_Explanations ==
    (phase = "detected" /\ ~out.raised) =>
        LET all == out.value.zscore_analysis.all_days
            flagged == out.value.zscore_analysis.flagged_days
            expl == out.value.explanations
            rolling == out.value.rolling_analysis
            chosen == UNION {ExplainedDay(expl[i], flagged) : i \in 1..Len(expl)}
        IN  /\ Len(flagged) = Cardinality({k \in 1..Len(all) : all[k].is_anomaly})
            /\ \A k \in 1..Len(flagged) :
                  flagged[k].is_anomaly /\ \E j \in 1..Len(all) : all[j] = flagged[k]
            /\ Len(expl) = IF Len(flagged) < 5 THEN Len(flagged) ELSE 5
            /\ Cardinality(chosen) = Len(expl)
            /\ \A i \in 1..Len(expl) :
                  /\ Cardinality(ExplainedDay(expl[i], flagged)) = 1
                  /\ \A k \in ExplainedDay(expl[i], flagged) :
                        /\ flagged[k].anomaly_type # "normal"
                        /\ expl[i].enrolments = flagged[k].total_enrolments
                        /\ expl[i].explanation.sentence # "No significant anomaly detected."
                        /\ expl[i].explanation.number = flagged[k].z_score
                  /\ \A j \in 1..(i - 1) :
                        \A kj \in ExplainedDay(expl[j], flagged),
                           ki \in ExplainedDay(expl[i], flagged) :
                            \/ flagged[kj].total_enrolments > flagged[ki].total_enrolments
                            \/ /\ flagged[kj].total_enrolments = flagged[ki].total_enrolments
                               /\ flagged[kj].date.ord < flagged[ki].date.ord
            /\ \A k \in chosen, u \in (1..Len(flagged)) \ chosen :
                  \/ flagged[u].total_enrolments < flagged[k].total_enrolments
                  \/ /\ flagged[u].total_enrolments = flagged[k].total_enrolments
                     /\ flagged[u].date.ord > flagged[k].date.ord
            /\ out.value.zscore_analysis.anomalies_found = Len(flagged)
            /\ rolling.anomalies_found = Len(rolling.flagged_days)
            /\ Len(rolling.flagged_days) =
                  Cardinality({k \in 1..Len(rolling.all_days) :
                                  rolling.all_days[k].is_rolling_anomaly})

\* six days are flagged, with z-scores of two sizes: five are explained and
\* the first explanation is not about the first flagged day
C18_Witness ==
    /\ phase = "detected"
    /\ ~out.raised
    /\ Len(out.value.zscore_analysis.flagged_days) = 6
    /\ Len(out.value.explanations) = 5
    /\ out.value.explanations[1].date # StrftimeYMD(out.value.zscore_analysis.flagged_days[1].date)
    /\ out.value.explanations[1].enrolments > out.value.explanations[5].enrolments

(***************************************************************************)
(* Properties of the location-volume detector (SpecGeo).                   *)
(***************************************************************************)
\* the total of pincode c, missing totals skipped
PincodeTotal(c) ==
    SeriesSum(Column(SelectRows(df.rows, [i \in 1..Len(df.rows) |-> df.rows[i].pincode = c]),
                     "total_enrolments"))

\* the per-pincode totals as a function of the pincode
PincodeTotals == [c \in GeoPincodes |-> PincodeTotal(c)]

\* the k-th smallest of the totals tot: the total with fewer than k totals
\* below it and at least k totals not above it
OrderStatistic(tot, k) ==
    CHOOSE v \in {tot[c] : c \in DOMAIN tot} :
        /\ Cardinality({c \in DOMAIN tot : tot[c] < v}) < k
        /\ Cardinality({c \in DOMAIN tot : tot[c] <= v}) >= k

\* 100 times the 95th percentile of the totals tot, interpolated linearly
\* between the two nearest order statistics
Percentile95Times100(tot) ==
    LET n == Cardinality(DOMAIN tot)
        lo == ((n - 1) * 95) \div 100
        r == ((n - 1) * 95) % 100
    IN  IF r = 0 THEN 100 * OrderStatistic(tot, lo + 1)
        ELSE (100 - r) * OrderStatistic(tot, lo + 1) + r * OrderStatistic(tot, lo + 2)

\* C17: detect_pincode_anomalies flags a location exactly when its total
\* strictly exceeds the 95th percentile of the per-location totals; no
\* location is flagged when there is one location or when all totals are
\* equal; locations of equal totals get the same flag and the same averaged
\* percentile rank; the rows are in descending order of total.
C17_HighVolume ==
    (phase = "pincodes" /\ ~out.raised /\ df.rows # << >>) =>
        LET rows == out.value
            tot == PincodeTotals
            n == Cardinality(DOMAIN tot)
            p95 == Percentile95Times100(tot)
        IN  /\ {rows[k].pincode : k \in 1..Len(rows)} = DOMAIN tot
            /\ Len(rows) = n
            /\ \A k \in 1..Len(rows) :
                  /\ rows[k].total_enrolments = tot[rows[k].pincode]
                  /\ rows[k].is_high_volume <=> (100 * rows[k].total_enrolments > p95)
                  /\ rows[k].percentile.num * 2 * n =
                        rows[k].percentile.den * 100 *
                            (2 * Cardinality({c \in DOMAIN tot :
                                    tot[c] < rows[k].total_enrolments})
                             + Cardinality({c \in DOMAIN tot :
                                    tot[c] = rows[k].total_enrolments}) + 1)
                  /\ \A j \in 1..Len(rows) :
                        rows[j].total_enrolments = rows[k].total_enrolments =>
                            /\ rows[j].is_high_volume = rows[k].is_high_volume
                            /\ rows[j].percentile = rows[k].percentile
                  /\ \A j \in 1..(k - 1) :
                        rows[j].total_enrolments >= rows[k].total_enrolments
            /\ (n = 1 \/ \A j, k \in 1..Len(rows) :
                    rows[j].total_enrolments = rows[k].total_enrolments) =>
                  \A k \in 1..Len(rows) : ~rows[k].is_high_volume

\* eleven locations: one is flagged, two others share a total, and the
\* rows had to be reordered
C17_Witness ==
    /\ phase = "pincodes"
    /\ ~out.raised
    /\ Len(out.value) = 11
    /\ out.value[1].is_high_volume
    /\ ~out.value[2].is_high_volume
    /\ out.value[2].total_enrolments = out.value[3].total_enrolments
    /\ out.value[1].pincode # 1


(***************************************************************************)
(* Properties of the analysis requests and of concurrent uploads           *)
(* (specification Spec).                                                   *)
(***************************************************************************)
IsAnalysis(r) == r.op \in AnalysisOps

IsWriter(r) == r.op \in {"load_default", "upload"}

\* a step of an analyze, detect-anomalies or visualization request leaves
\* current_data alone, and a step that replaces current_data while the
\* server is serving is the step of a load-default or upload request that
\* installs its own frame
C13_Step ==
    /\ \A p \in Procs :
          (req'[p] # req[p] /\ IsAnalysis(req'[p])) => current_data' = current_data
    /\ (current_data' # current_data /\ server = "serving") =>
          \E p \in Procs :
              /\ IsWriter(req'[p])
              /\ req'[p].pc \in {"remove", "done"}
              /\ req'[p].df = current_data'

\* C13: no analysis, anomaly-detection or visualization request modifies
\* the current dataset, with or without filters and whether it succeeds or
\* fails; only the load-default and upload requests change it.
C13_AnalysisReadOnly == [][C13_Step]_vars

\* one analysis request has succeeded on a filtered copy that differs from
\* the current dataset and another has failed, both with a dataset loaded
C13_Witness ==
    /\ current_data # None
    /\ \E p, q \in Procs :
          /\ IsAnalysis(req[p]) /\ req[p].pc = "done" /\ req[p].status = 200
          /\ Truthy(req[p].params.pincodes)
          /\ req[p].local # current_data
          /\ IsAnalysis(req[q]) /\ req[q].pc = "done" /\ req[q].status = 500

\* the copy a request takes is the filtered current dataset of the moment of
\* the copy, the request keeps it to its end, and a replacement of the
\* current dataset installs the frame of the request that makes the step
C14_Step ==
    /\ \A p \in Procs :
          /\ (req[p].pc = "copy" /\ req'[p].pc = "run") =>
                /\ current_data # None
                /\ req'[p].local =
                      apply_filters(req[p].op, current_data, req[p].params).value
          /\ (req[p].pc = "run" /\ req'[p] # req[p]) =>
                /\ req'[p].pc = "done"
                /\ req'[p].local = req[p].local
    /\ \A p \in Procs :
          (IsWriter(req'[p]) /\ req'[p].df # None /\ req'[p].df # req[p].df) =>
              current_data' = req'[p].df

\* the result of a request that has answered 200 is the result of the
\* engine on the request's one copy
C14_Result ==
    \A p \in Procs :
        (IsAnalysis(req[p]) /\ req[p].pc = "done" /\ req[p].status = 200) =>
            Ok(req[p].result) \in respond(req[p].op, req[p].local, req[p].params)

\* C14: under any interleaving of load and upload requests with analysis
\* requests, each analysis request computes its whole result from a single
\* version of the dataset, one that was current during the request, and
\* after concurrent replacements the current dataset is the last writer's.
C14_SingleVersion == [] C14_Result /\ [][C14_Step]_vars

\* a request has answered 200 from an unfiltered copy of a dataset that an
\* upload has since replaced
C14_Witness ==
    \E p, q \in Procs :
        /\ IsAnalysis(req[p]) /\ req[p].pc = "done" /\ req[p].status = 200
        /\ ~Truthy(req[p].params.pincodes)
        /\ req[p].local # current_data
        /\ req[q].op = "upload" /\ req[q].df = current_data

\* C19: an upload request that answers 400 or 500 has not replaced the
\* current dataset, under any interleaving of concurrent uploads through the
\* one temporary path.
C19_FailedUploadNoWrite ==
    \A p \in Procs :
        (req[p].op = "upload" /\ req[p].pc = "done" /\ req[p].status \in {400, 500}) =>
            req[p].df = None

\* the step in which an upload answers 200: the frame it installed is one
\* that preprocess_data makes of the file it was sent
C20_Step ==
    \A p \in Procs :
        (req[p].op = "upload" /\ req[p].pc = "remove" /\ req'[p].pc = "done"
            /\ req'[p].status = 200) =>
            req[p].df \in preprocess_data(req[p].file)

\* C20: of two concurrent uploads, each one that reports success has
\* installed the table parsed from its own file, never the content of the
\* other request's file.
C20_OwnFile == [][C20_Step]_vars


(***************************************************************************)
(* Properties of the absent dataset (specification Spec).                  *)
(***************************************************************************)
IsReader(r) == r.op \in AnalysisOps \cup QueryOps

NoDataLoaded(r) ==
    /\ r.pc = "done"
    /\ r.status = 400
    /\ r.error = "No data loaded"

\* while the dataset is absent no request has installed a frame
C21_AbsentUntilLoaded == current_data = None => \A p \in Procs : req[p].df = None

\* a present dataset stays present and a load or upload that installs a
\* frame makes it present; a reading request that starts while the dataset
\* is absent ends in the same step with the 'no data loaded' answer and
\* holds no copy and no result; a step never produces that answer while the
\* dataset is present
C21_Step ==
    /\ current_data # None => current_data' # None
    /\ \A p \in Procs :
          (IsWriter(req'[p]) /\ req'[p].df # None) => current_data' # None
    /\ \A p \in Procs :
          (IsReader(req'[p]) /\ req'[p] # req[p] /\ req[p].pc \in {"idle", "done"}
              /\ current_data = None) =>
              /\ NoDataLoaded(req'[p])
              /\ req'[p].local = None
              /\ req'[p].result = None
    /\ \A p \in Procs :
          (IsReader(req'[p]) /\ req'[p] # req[p] /\ NoDataLoaded(req'[p])) =>
              current_data = None

\* C21: the current dataset is absent only until the first successful load
\* or upload and is never reset to absent; while it is absent every
\* analyze, detect-anomalies, visualizations, filter-list and export request
\* answers 400 'no data loaded' without computing, and once it is present
\* no such request gives that answer.
C21_NoDataLoaded == [] C21_AbsentUntilLoaded /\ [][C21_Step]_vars

\* an export was refused while the dataset was absent, and after an upload
\* a filter-list request was answered
C21_Witness ==
    /\ current_data # None
    /\ \E p, q \in Procs :
          /\ req[p].op = "export" /\ NoDataLoaded(req[p])
          /\ req[q].op \in {"pincodes", "date_range"}
          /\ req[q].pc = "done" /\ req[q].status = 200
          /\ req[q].result # None


(***************************************************************************)
(* The bound of the z-score (specification SpecAnomaly).                   *)
(***************************************************************************)
\* z^2 <= (n - 1)^2 / n for a z-score of a series of n days
WithinBound(z, n) == z.nan \/ n * z.sqnum <= (n - 1) * (n - 1) * z.sqden

\* z^2 = (n - 1)^2 / n: the bound is met
AtBound(z, n) == ~z.nan /\ n * z.sqnum = (n - 1) * (n - 1) * z.sqden

\* C22: with the sample standard deviation of the same series |z| never
\* exceeds (n-1)/sqrt(n) for a series of n days, so for every per-day series
\* of at most 8 distinct dates calculate_zscore_anomalies with the default
\* threshold 2.5 flags no day, whatever the values are.
C22_SmallSeriesUnflagged ==
    phase = "zscore" =>
        /\ Len(out) <= MaxDays => \A k \in 1..Len(out) : WithinBound(out[k].z_score, Len(out))
        /\ (Len(out) <= 8 /\ args = ANOMALY_THRESHOLD) =>
              \A k \in 1..Len(out) :
                  ~out[k].is_anomaly /\ out[k].anomaly_type = "normal"

\* a series of eight days, seven of one value, whose eighth day meets the
\* bound 7/sqrt(8) and is not flagged at the default threshold
C22_Witness ==
    /\ phase = "zscore"
    /\ args = ANOMALY_THRESHOLD
    /\ Len(out) = 8
    /\ \E k \in 1..Len(out) :
          /\ AtBound(out[k].z_score, 8)
          /\ out[k].z_score.sign = 1
          /\ ~out[k].is_anomaly

====
